---- MODULE Spec2Model ----
(***************************************************************************)
(* IPyHOP-temporal: the HTN planner with temporal metadata.                *)
(*                                                                         *)
(* Python objects are modelled on a heap (object id -> value) so that      *)
(* aliasing, copying and in-place mutation are explicit.  Strings that the *)
(* code parses are modelled by their characters (durations) or by their    *)
(* fields (instants); times are integers in milliseconds.                  *)
(***************************************************************************)
EXTENDS Integers, Sequences, FiniteSets, TLC

VARIABLES
    heap,       \* the Python heap: a sequence of objects, a reference is an index
    actions,    \* the Actions registry handed to IPyHOP(methods, actions)
    call,       \* the arguments of plan(): the domain, the caller's state, the task list
    pc,         \* where the planning call is: "idle", "run", "done", "failed", "error"
    tree,       \* the solution tree: an arena of nodes, node 1 is the root
    frontier,   \* the node the engine refines next (0: none)
    cur,        \* reference of the state inherited by the frontier
    result,     \* what plan() handed to the caller: [status, plan, error]
    runs,       \* number of plan() calls started on these inputs
    prev,       \* the result of the previous plan() call on the same inputs
    snapshot,   \* the caller's state as it was before the first call (ghost)
    localtz,    \* the UTC offset of the host's local zone, in ms
    sheap,      \* the heap of the STN objects: sets, dictionaries, STNs
    srefs,      \* the references of the STNs in use: the original, then its copy
    slast,      \* the last STN call: [op, on, args, ret, raised, before]
    sadds,      \* number of add_time_point / add_constraint calls made
    dpc,        \* where the duration round is: "arg", "formatted", "parsed"
    darg,       \* the argument of the duration call: a string or a number of seconds
    dret,       \* what the last duration call returned
    meta,       \* the TemporalMetadata object of the metadata client, None before __init__
    mlast,      \* the last TemporalMetadata call: [op, args, ret, raised, before]
    mcalls,     \* number of TemporalMetadata calls made
    areg,       \* the Actions object of the registry client
    alast,      \* the last declaration call: [op, args, raised, before]
    acalls,     \* number of declaration calls made
    theap,      \* the heap of the State client: dictionaries, lists, States
    trefs,      \* the references of the States in use: the original, then its copy
    tlast,      \* the last State call: [op, on, args, raised, before]
    tcalls      \* number of State calls made

planvars == <<heap, actions, call, pc, tree, frontier, cur, result, runs, prev, snapshot,
              localtz>>
stnvars == <<sheap, srefs, slast, sadds>>
durvars == <<dpc, darg, dret>>
metavars == <<meta, mlast, mcalls>>
regvars == <<areg, alast, acalls>>
statevars == <<theap, trefs, tlast, tcalls>>
apivars == <<metavars, regvars, statevars>>
vars == <<planvars, stnvars, durvars, apivars>>

None == [none |-> TRUE]

\* a local variable: body evaluated with its parameter bound to the value v
Bind(v, body(_)) == body(v)

(***************************************************************************)
(* Bounds of the model.                                                    *)
(***************************************************************************)
MaxTasks == 2
MaxRuns == 2

(***************************************************************************)
(* Strings.  A duration string is the sequence of its characters.          *)
(***************************************************************************)
Chr(s) == [kind |-> "str", s |-> s]
Num(v) == [kind |-> "num", v |-> v]

IsDigit(c) == c \in {"0", "1", "2", "3", "4", "5", "6", "7", "8", "9"}

DigitVal(c) ==
    CASE c = "0" -> 0 [] c = "1" -> 1 [] c = "2" -> 2 [] c = "3" -> 3
      [] c = "4" -> 4 [] c = "5" -> 5 [] c = "6" -> 6 [] c = "7" -> 7
      [] c = "8" -> 8 [] c = "9" -> 9

MsPerSecond == 10 * 100

\* the index just past the longest run of digits of s that starts at i  (\d+)
RECURSIVE DigitsEnd(_, _)
DigitsEnd(s, i) ==
    IF i <= Len(s) /\ IsDigit(s[i]) THEN DigitsEnd(s, i + 1) ELSE i

\* the integer written by the digits s[i..j-1]
RECURSIVE DigitsValue(_, _, _)
DigitsValue(s, i, j) ==
    IF j <= i THEN 0 ELSE DigitsValue(s, i, j - 1) * 10 + DigitVal(s[j - 1])

\* float("0.d1d2d3...") in milliseconds: the first three decimals of s[i..j-1]
FractionMs(s, i, j) ==
    LET d(k) == IF i + k < j THEN DigitVal(s[i + k]) ELSE 0
    IN  d(0) * 100 + d(1) * 10 + d(2)

\* one optional group (?:(\d+(?:\.\d+)?)U)? of the pattern, tried at index i:
\* the group takes part only when digits, an optional fraction and the unit
\* letter U follow; otherwise it matches empty and the index stays.
DurationGroup(s, i, unit) ==
    Bind(DigitsEnd(s, i), LAMBDA e1 :
    Bind(IF e1 > i /\ e1 <= Len(s) /\ s[e1] = "." THEN DigitsEnd(s, e1 + 1) ELSE e1,
         LAMBDA e2 :
        IF e1 > i /\ e2 > e1 + 1 /\ e2 <= Len(s) /\ s[e2] = unit
        THEN [found |-> TRUE, next |-> e2 + 1,
              ms |-> DigitsValue(s, i, e1) * MsPerSecond + FractionMs(s, e1 + 1, e2)]
        ELSE IF e1 > i /\ e1 <= Len(s) /\ s[e1] = unit
        THEN [found |-> TRUE, next |-> e1 + 1, ms |-> DigitsValue(s, i, e1) * MsPerSecond]
        ELSE [found |-> FALSE, next |-> i, ms |-> 0]))

\* parse_iso8601_duration: milliseconds, or None.  The pattern is matched
\* with re.match and each of its three groups is optional, so the match
\* itself never fails: a missing group counts as 0.
parse_iso8601_duration(d) ==
    IF d.kind # "str" \/ Len(d.s) = 0 THEN None
    ELSE IF ~(Len(d.s) >= 2 /\ d.s[1] = "P" /\ d.s[2] = "T") THEN None
    ELSE Bind(SubSeq(d.s, 3, Len(d.s)), LAMBDA rest :
         Bind(DurationGroup(rest, 1, "H"), LAMBDA h :
         Bind(DurationGroup(rest, h.next, "M"), LAMBDA m :
         Bind(DurationGroup(rest, m.next, "S"), LAMBDA sec :
            Num(h.ms * 3600 + m.ms * 60 + sec.ms)))))

(***************************************************************************)
(* Instants.  An ISO 8601 datetime string is modelled by its fields: the   *)
(* wall-clock reading (ms), and its zone suffix: "Z", a numeric offset     *)
(* (off, in ms; "+00:00" is the offset 0) or none ("naive").  A string     *)
(* fromisoformat rejects has valid = FALSE.                                *)
(***************************************************************************)
IsoZ(wall) == [valid |-> TRUE, wall |-> wall, zone |-> "Z", off |-> 0]
IsoOffset(wall, off) == [valid |-> TRUE, wall |-> wall, zone |-> "offset", off |-> off]
IsoNaive(wall) == [valid |-> TRUE, wall |-> wall, zone |-> "naive", off |-> 0]

\* the host's UTC offset, datetime.now().astimezone().tzinfo
LocalTzOffset == localtz

\* parse_iso8601_datetime: a datetime [wall, aware, off], or None
parse_iso8601_datetime(str) ==
    IF ~str.valid THEN None
    ELSE IF str.zone = "Z" THEN [wall |-> str.wall, aware |-> TRUE, off |-> 0]
    ELSE IF str.zone = "offset" THEN [wall |-> str.wall, aware |-> TRUE, off |-> str.off]
    ELSE [wall |-> str.wall, aware |-> FALSE, off |-> 0]

\* format_iso8601_datetime: a naive datetime gets the host's zone; isoformat
\* writes the offset and the suffix "+00:00" is replaced by "Z"
format_iso8601_datetime(dt) ==
    LET off == IF dt.aware THEN dt.off ELSE LocalTzOffset
    IN  IF off = 0 THEN IsoZ(dt.wall) ELSE IsoOffset(dt.wall, off)

\* a faulty variant of add_duration_to_datetime: dt - timedelta(...)
subtract_duration_from_datetime(str, duration) ==
    Bind(parse_iso8601_datetime(str), LAMBDA dt :
        IF dt = None THEN None
        ELSE Bind(IF duration.kind = "str" THEN parse_iso8601_duration(duration)
                  ELSE Num(duration.v),
                  LAMBDA secs :
                IF secs = None THEN None ELSE [dt EXCEPT !.wall = dt.wall - secs.v]))

\* add_duration_to_datetime(dt: str, duration: str | float): a datetime, or None
add_duration_to_datetime(str, duration) ==
    Bind(parse_iso8601_datetime(str), LAMBDA dt :
        IF dt = None THEN None
        ELSE Bind(IF duration.kind = "str" THEN parse_iso8601_duration(duration)
                  ELSE Num(duration.v),
                  LAMBDA secs :
                IF secs = None THEN None ELSE [dt EXCEPT !.wall = dt.wall + secs.v]))

\* calculate_end_time: an ISO 8601 string, or None
calculate_end_time(start_time, duration) ==
    Bind(add_duration_to_datetime(start_time, duration), LAMBDA end_dt :
        IF end_dt = None THEN None ELSE format_iso8601_datetime(end_dt))

\* str(n) for an integer n >= 0: the sequence of its decimal digits
DigitChr(v) ==
    CASE v = 0 -> "0" [] v = 1 -> "1" [] v = 2 -> "2" [] v = 3 -> "3"
      [] v = 4 -> "4" [] v = 5 -> "5" [] v = 6 -> "6" [] v = 7 -> "7"
      [] v = 8 -> "8" [] v = 9 -> "9"

\* a faulty variant of str(n): the last digit alone
IntStrLastDigit(n) == <<DigitChr(n % 10)>>

RECURSIVE IntStr(_)
IntStr(n) == IF n < 10 THEN <<DigitChr(n)>> ELSE IntStr(n \div 10) \o <<DigitChr(n % 10)>>

\* f"{secs:.6f}".rstrip('0').rstrip('.') for 0 < ms < 1000 thousandths
FractionStr(ms) ==
    LET d1 == ms \div 100
        d2 == (ms \div 10) % 10
        d3 == ms % 10
    IN  IF d3 # 0 THEN <<DigitChr(d1), DigitChr(d2), DigitChr(d3)>>
        ELSE IF d2 # 0 THEN <<DigitChr(d1), DigitChr(d2)>>
        ELSE <<DigitChr(d1)>>

\* format_iso8601_duration(seconds), seconds given in ms
format_iso8601_duration(ms0) ==
    LET ms == IF ms0 < 0 THEN 0 ELSE ms0
        hours == ms \div (3600 * MsPerSecond)
        remaining == ms % (3600 * MsPerSecond)
        minutes == remaining \div (60 * MsPerSecond)
        secs == remaining % (60 * MsPerSecond)
        hpart == IF hours > 0 THEN IntStr(hours) \o <<"H">> ELSE <<>>
        mpart == IF minutes > 0 THEN IntStr(minutes) \o <<"M">> ELSE <<>>
        spart == IF secs > 0 \/ (hours = 0 /\ minutes = 0)
                 THEN IF secs % MsPerSecond = 0
                      THEN IntStr(secs \div MsPerSecond) \o <<"S">>
                      ELSE IntStr(secs \div MsPerSecond) \o <<".">>
                           \o FractionStr(secs % MsPerSecond) \o <<"S">>
                 ELSE <<>>
        parts == hpart \o mpart \o spart
    IN  Chr(IF parts # <<>> THEN <<"P", "T">> \o parts ELSE <<"P", "T", "0", "S">>)

(***************************************************************************)
(* TemporalMetadata: the triple {_duration, _start_time, _end_time}, each  *)
(* None or an ISO 8601 string.  An operation that may raise returns        *)
(* [tm, raised]; raised is None or the exception's name.                   *)
(***************************************************************************)
EmptyMetadata == [duration |-> None, start_time |-> None, end_time |-> None]

\* a faulty variant of set_duration: a string is stored without validation
set_duration_unvalidated(tm, duration) ==
    IF duration.kind = "num"
    THEN [tm |-> [tm EXCEPT !.duration = format_iso8601_duration(duration.v)],
          raised |-> None]
    ELSE [tm |-> [tm EXCEPT !.duration = duration], raised |-> None]

\* TemporalMetadata.set_duration
set_duration(tm, duration) ==
    IF duration.kind = "num"
    THEN [tm |-> [tm EXCEPT !.duration = format_iso8601_duration(duration.v)],
          raised |-> None]
    ELSE IF duration.kind = "str"
    THEN IF parse_iso8601_duration(duration) # None
         THEN [tm |-> [tm EXCEPT !.duration = duration], raised |-> None]
         ELSE [tm |-> tm, raised |-> [exc |-> "ValueError"]]
    ELSE [tm |-> tm, raised |-> [exc |-> "TypeError"]]

\* TemporalMetadata.set_start_time, for a string argument
set_start_time(tm, start_time) ==
    IF parse_iso8601_datetime(start_time) # None
    THEN [tm |-> [tm EXCEPT !.start_time = start_time], raised |-> None]
    ELSE [tm |-> tm, raised |-> [exc |-> "ValueError"]]

\* TemporalMetadata.set_end_time, for a string argument
set_end_time(tm, end_time) ==
    IF parse_iso8601_datetime(end_time) # None
    THEN [tm |-> [tm EXCEPT !.end_time = end_time], raised |-> None]
    ELSE [tm |-> tm, raised |-> [exc |-> "ValueError"]]

\* TemporalMetadata.__init__(duration, start_time, end_time): each argument
\* that is not None goes through its setter, in this order
NewTemporalMetadata(duration, start_time, end_time) ==
    Bind(IF duration # None THEN set_duration(EmptyMetadata, duration)
         ELSE [tm |-> EmptyMetadata, raised |-> None],
         LAMBDA r1 :
    Bind(IF r1.raised # None \/ start_time = None THEN r1
         ELSE set_start_time(r1.tm, start_time),
         LAMBDA r2 :
        IF r2.raised # None \/ end_time = None THEN r2
        ELSE set_end_time(r2.tm, end_time)))

\* a faulty variant of calculate_end_from_duration: the end is the start
calculate_end_without_duration(tm) ==
    IF tm.start_time = None \/ tm.duration = None THEN [tm |-> tm, ok |-> FALSE]
    ELSE [tm |-> [tm EXCEPT !.end_time = tm.start_time], ok |-> TRUE]

\* TemporalMetadata.calculate_end_from_duration: [tm, ok], ok is the returned bool
calculate_end_from_duration(tm) ==
    IF tm.start_time = None \/ tm.duration = None THEN [tm |-> tm, ok |-> FALSE]
    ELSE Bind(calculate_end_time(tm.start_time, tm.duration), LAMBDA end :
            IF end # None THEN [tm |-> [tm EXCEPT !.end_time = end], ok |-> TRUE]
            ELSE [tm |-> tm, ok |-> FALSE])

\* TemporalMetadata.copy
CopyMetadata(tm) == NewTemporalMetadata(tm.duration, tm.start_time, tm.end_time).tm

\* TemporalMetadata.to_dict: a mapping of the fields that are set
to_dict(tm) ==
    LET keys == {k \in {"duration", "start_time", "end_time"} : tm[k] # None}
    IN  [k \in keys |-> tm[k]]


(***************************************************************************)
(* Actions: the registry.  A Python function object is [callable, name]    *)
(* (name is its __name__); the four dictionaries are functions whose       *)
(* domain is the set of their keys.                                        *)
(***************************************************************************)
Fn(name) == [callable |-> TRUE, name |-> name]

\* Actions.__init__
NewActions ==
    [action_dict |-> <<>>, action_prob |-> <<>>, action_cost |-> <<>>,
     action_temporal_dict |-> <<>>]

\* d[k] = v on a dictionary
DictSet(d, k, v) == (k :> v) @@ d

\* d.update({key(x): val(x) for x in list}) is a left fold of DictSet
RECURSIVE DictUpdateNames(_, _, _)
DictUpdateNames(d, list, v) ==
    IF list = <<>> THEN d
    ELSE DictUpdateNames(DictSet(d, Head(list).name, v), Tail(list), v)

RECURSIVE DictUpdateFns(_, _)
DictUpdateFns(d, list) ==
    IF list = <<>> THEN d
    ELSE DictUpdateFns(DictSet(d, Head(list).name, Head(list)), Tail(list))

\* Actions.declare_actions(action_list)
declare_actions(reg, action_list) ==
    IF \E i \in 1..Len(action_list) : ~action_list[i].callable
    THEN [reg |-> reg, raised |-> [exc |-> "AssertionError"]]
    ELSE [reg |-> [reg EXCEPT
                     !.action_dict = DictUpdateFns(@, action_list),
                     !.action_prob = DictUpdateNames(@, action_list, <<1, 0>>),
                     !.action_cost = DictUpdateNames(@, action_list, 1)],
          raised |-> None]

\* a faulty variant of declare_action_models: an action declared with the
\* success probability 0 is also taken out of action_dict
declare_action_models_pruning(reg, act_prob_dict, act_cost_dict) ==
    LET keep == {n \in DOMAIN reg.action_dict :
                    n \in DOMAIN act_prob_dict => act_prob_dict[n][1] # 0}
    IN  [reg |-> [reg EXCEPT !.action_dict = [n \in keep |-> @[n]],
                             !.action_prob = act_prob_dict @@ @,
                             !.action_cost = act_cost_dict @@ @],
         raised |-> None]

\* Actions.declare_action_models(act_prob_dict, act_cost_dict): the two
\* dictionaries are updated, then the two assertions compare the numbers of
\* keys; [reg, raised]
declare_action_models(reg, act_prob_dict, act_cost_dict) ==
    LET reg1 == [reg EXCEPT !.action_prob = act_prob_dict @@ @,
                            !.action_cost = act_cost_dict @@ @]
        same(d) == Cardinality(DOMAIN d) = Cardinality(DOMAIN reg1.action_dict)
    IN  [reg |-> reg1,
         raised |-> IF same(reg1.action_prob) /\ same(reg1.action_cost) THEN None
                    ELSE [exc |-> "AssertionError"]]

\* self.action_dict[name] = fn and the default probability and cost
Register(reg, name, fn) ==
    [reg EXCEPT !.action_dict = DictSet(@, name, fn),
                !.action_prob = DictSet(@, name, <<1, 0>>),
                !.action_cost = DictSet(@, name, 1)]

\* the branch on len(item) of the loop body of declare_temporal_actions:
\* [reg, name, raised].  An entry is [len, name, name_is_str, fn, duration];
\* len is len(item).
RegisterItem(reg, item) ==
    IF item.len = 2
    THEN IF ~item.fn.callable
         THEN [reg |-> reg, name |-> None, raised |-> [exc |-> "AssertionError"]]
         ELSE IF item.fn.name \notin DOMAIN reg.action_dict
         THEN [reg |-> Register(reg, item.fn.name, item.fn), name |-> item.fn.name,
               raised |-> None]
         ELSE [reg |-> reg, name |-> item.fn.name, raised |-> None]
    ELSE IF item.len = 3
    THEN IF ~item.name_is_str \/ ~item.fn.callable
         THEN [reg |-> reg, name |-> None, raised |-> [exc |-> "AssertionError"]]
         ELSE [reg |-> Register(reg, item.name, item.fn), name |-> item.name,
               raised |-> None]
    ELSE [reg |-> reg, name |-> None, raised |-> [exc |-> "ValueError"]]

\* Actions.declare_temporal_actions(temporal_action_list), from entry i on:
\* the entry is registered, then its temporal metadata is created and stored
RECURSIVE DeclareTemporalFrom(_, _, _)
DeclareTemporalFrom(reg, list, i) ==
    IF i > Len(list) THEN [reg |-> reg, raised |-> None]
    ELSE Bind(RegisterItem(reg, list[i]), LAMBDA r :
        IF r.raised # None THEN [reg |-> r.reg, raised |-> r.raised]
        ELSE Bind(NewTemporalMetadata(list[i].duration, None, None), LAMBDA made :
            IF made.raised # None THEN [reg |-> r.reg, raised |-> made.raised]
            ELSE DeclareTemporalFrom(
                    [r.reg EXCEPT !.action_temporal_dict = DictSet(@, r.name, made.tm)],
                    list, i + 1)))

declare_temporal_actions(reg, list) == DeclareTemporalFrom(reg, list, 1)

\* the two entry forms
Entry3(name, fn, duration) ==
    [len |-> 3, name |-> name, name_is_str |-> TRUE, fn |-> fn, duration |-> duration]
Entry2(fn, duration) ==
    [len |-> 2, name |-> fn.name, name_is_str |-> TRUE, fn |-> fn, duration |-> duration]

\* Actions.get_temporal_metadata: dict.get, None when the key is missing
get_temporal_metadata(reg, action_name) ==
    IF action_name \in DOMAIN reg.action_temporal_dict
    THEN reg.action_temporal_dict[action_name] ELSE None

\* a faulty variant of has_temporal_info: no action is temporal
has_no_temporal_info(reg, action_name) == FALSE

\* Actions.has_temporal_info
has_temporal_info(reg, action_name) == action_name \in DOMAIN reg.action_temporal_dict

(***************************************************************************)
(* State objects on the heap.  A State is [kind, attrs, time, timeline]:   *)
(* attrs lists its user attributes in the order of __dict__, each with the *)
(* reference of the dictionary bound to it; time is _current_time (a       *)
(* string, immutable); timeline is the reference of the _timeline list.    *)
(***************************************************************************)
DictObj(d) == [kind |-> "dict", d |-> d]
ListObj(l) == [kind |-> "list", l |-> l]
StateObj(attrs, time, timeline) ==
    [kind |-> "State", attrs |-> attrs, time |-> time, timeline |-> timeline]

\* the reference bound to attribute name of the State at s
AttrRef(h, s, name) ==
    LET i == CHOOSE i \in 1..Len(h[s].attrs) : h[s].attrs[i].name = name
    IN  h[s].attrs[i].ref

\* state.name, a dictionary
Attr(h, s, name) == h[AttrRef(h, s, name)].d

\* state.name[key] = val
SetItem(h, s, name, key, val) ==
    [h EXCEPT ![AttrRef(h, s, name)] = DictObj(DictSet(@.d, key, val))]

\* State(name, initial_time) followed by the assignment of each attribute:
\* the dictionaries, the empty timeline and the State are allocated at the
\* end of the heap; [heap, ref]
RECURSIVE AllocDicts(_, _)
AllocDicts(h, dicts) ==
    IF dicts = <<>> THEN h
    ELSE AllocDicts(Append(h, DictObj(Head(dicts).d)), Tail(dicts))

NewState(h, dicts, initial_time) ==
    LET n == Len(dicts)
        h1 == AllocDicts(h, dicts)
        h2 == Append(h1, ListObj(<<>>))
        attrs == [i \in 1..n |-> [name |-> dicts[i].name, ref |-> Len(h) + i]]
    IN  [heap |-> Append(h2, StateObj(attrs, initial_time, Len(h) + n + 1)),
         ref |-> Len(h) + n + 2]

\* State.copy: deepcopy allocates a copy of every dictionary, of the
\* timeline and of the State itself; [heap, ref].  CopyShallow is
\* copy.copy: a new State that shares the dictionaries and the timeline.
CopyShallow(h, s) == [heap |-> Append(h, h[s]), ref |-> Len(h) + 1]

\* faulty variants of State.copy: "return self", and a new State with its
\* own timeline whose attributes are still bound to the same dictionaries
CopyAlias(h, s) == [heap |-> h, ref |-> s]

CopySharedAttrs(h, s) ==
    [heap |-> h \o <<h[h[s].timeline], StateObj(h[s].attrs, h[s].time, Len(h) + 1)>>,
     ref |-> Len(h) + 2]

\* a faulty variant of State.copy: the dictionaries are copied, the timeline
\* list is shared
CopySharedTimeline(h, s) ==
    [heap |-> Append(h \o [i \in 1..Len(h[s].attrs) |-> h[h[s].attrs[i].ref]],
                     StateObj([i \in 1..Len(h[s].attrs) |->
                                  [name |-> h[s].attrs[i].name, ref |-> Len(h) + i]],
                              h[s].time, h[s].timeline)),
     ref |-> Len(h) + Len(h[s].attrs) + 1]

Copy(h, s) ==
    LET n == Len(h[s].attrs)
        h1 == h \o [i \in 1..n |-> h[h[s].attrs[i].ref]]
        h2 == Append(h1, h[h[s].timeline])
        attrs == [i \in 1..n |-> [name |-> h[s].attrs[i].name, ref |-> Len(h) + i]]
    IN  [heap |-> Append(h2, StateObj(attrs, h[s].time, Len(h) + n + 1)),
         ref |-> Len(h) + n + 2]

\* State.get_current_time
get_current_time(h, s) == h[s].time

\* State.set_current_time
set_current_time(h, s, time) == [h EXCEPT ![s].time = time]

\* a faulty variant of add_to_timeline: self._timeline.insert(0, ...)
push_to_timeline(h, s, action, start_time, end_time) ==
    [h EXCEPT ![h[s].timeline] = ListObj(<< <<action, start_time, end_time>> >> \o @.l)]

\* State.add_to_timeline
add_to_timeline(h, s, action, start_time, end_time) ==
    [h EXCEPT ![h[s].timeline] = ListObj(Append(@.l, <<action, start_time, end_time>>))]

\* State.get_timeline: a copy of the list
get_timeline(h, s) == h[h[s].timeline].l

\* what a State holds, by value: its attributes, cursor and timeline
StateValue(h, s) ==
    [attrs |-> [i \in 1..Len(h[s].attrs) |->
                   [name |-> h[s].attrs[i].name, d |-> h[h[s].attrs[i].ref].d]],
     time |-> h[s].time,
     timeline |-> h[h[s].timeline].l]


(***************************************************************************)
(* The healthcare scheduling domain and problem.  An action takes the heap *)
(* and the reference of the state it may mutate, and returns [ok, heap]:   *)
(* ok is FALSE when the function returns None.  A method returns           *)
(* [applies, tasks].  A task is the tuple of its head and arguments.       *)
(***************************************************************************)
a_prepare_room(h, s, room, surgery_type) ==
    IF /\ Attr(h, s, "room_status")[room] \in {"available", "cleaned"}
       /\ Attr(h, s, "room_equipment")[room] = surgery_type
    THEN [ok |-> TRUE, heap |-> SetItem(h, s, "room_status", room, "prepared")]
    ELSE [ok |-> FALSE, heap |-> h]

a_perform_surgery(h, s, patient, room, surgery_type) ==
    IF /\ Attr(h, s, "room_status")[room] = "prepared"
       /\ Attr(h, s, "patient_location")[patient] = room
       /\ Attr(h, s, "patient_surgery_type")[patient] = surgery_type
    THEN [ok |-> TRUE,
          heap |-> SetItem(SetItem(h, s, "room_status", room, "in_use"),
                           s, "surgery_complete", patient, TRUE)]
    ELSE [ok |-> FALSE, heap |-> h]

a_recover_patient(h, s, patient, room) ==
    IF /\ Attr(h, s, "surgery_complete")[patient]
       /\ Attr(h, s, "patient_location")[patient] = room
    THEN [ok |-> TRUE,
          heap |-> SetItem(SetItem(h, s, "patient_location", patient, "recovery"),
                           s, "room_status", room, "available")]
    ELSE [ok |-> FALSE, heap |-> h]

a_clean_room(h, s, room) ==
    IF Attr(h, s, "room_status")[room] = "available"
    THEN [ok |-> TRUE, heap |-> SetItem(h, s, "room_status", room, "cleaned")]
    ELSE [ok |-> FALSE, heap |-> h]

\* a test double: an effect function whose precondition never holds
a_poison(h, s) == [ok |-> FALSE, heap |-> h]

PT30M == Chr(<<"P", "T", "3", "0", "M">>)
PT2H == Chr(<<"P", "T", "2", "H">>)
PT15M == Chr(<<"P", "T", "1", "5", "M">>)
PT20M == Chr(<<"P", "T", "2", "0", "M">>)

\* the list the domain file hands to declare_temporal_actions
HealthcareTemporalActions ==
    << Entry3("a_prepare_room", Fn("a_prepare_room"), PT30M),
       Entry3("a_perform_surgery", Fn("a_perform_surgery"), PT2H),
       Entry3("a_recover_patient", Fn("a_recover_patient"), PT15M),
       Entry3("a_clean_room", Fn("a_clean_room"), PT20M) >>

tm_schedule_surgery(h, s, patient, room, surgery_type) ==
    IF /\ Attr(h, s, "room_status")[room] = "available"
       /\ Attr(h, s, "room_equipment")[room] = surgery_type
       /\ Attr(h, s, "patient_surgery_type")[patient] = surgery_type
    THEN [applies |-> TRUE,
          tasks |-> << <<"a_prepare_room", room, surgery_type>>,
                       <<"a_perform_surgery", patient, room, surgery_type>>,
                       <<"a_recover_patient", patient, room>>,
                       <<"a_clean_room", room>> >>]
    ELSE [applies |-> FALSE, tasks |-> <<>>]

tm_schedule_simple_surgery(h, s, patient, room, surgery_type) ==
    IF /\ Attr(h, s, "room_status")[room] \in {"cleaned", "available"}
       /\ Attr(h, s, "room_equipment")[room] = surgery_type
       /\ Attr(h, s, "patient_surgery_type")[patient] = surgery_type
       /\ Attr(h, s, "patient_location")[patient] = room
    THEN [applies |-> TRUE,
          tasks |-> << <<"a_prepare_room", room, surgery_type>>,
                       <<"a_perform_surgery", patient, room, surgery_type>>,
                       <<"a_recover_patient", patient, room>> >>]
    ELSE [applies |-> FALSE, tasks |-> <<>>]

\* a faulty variant of the declaration: the two methods in the other order
HealthcareMethodsReversed ==
    [schedule_surgery |-> <<"tm_schedule_simple_surgery", "tm_schedule_surgery">>]

\* methods.declare_task_methods('schedule_surgery', [...]): the task's
\* methods in declaration order
HealthcareMethods ==
    [schedule_surgery |-> <<"tm_schedule_surgery", "tm_schedule_simple_surgery">>]

\* the attributes of the problem file's init_state, in assignment order
HealthcareInitDicts ==
    << [name |-> "room_status",
        d |-> [OR1 |-> "available", OR2 |-> "available", OR3 |-> "cleaned"]],
       [name |-> "room_equipment",
        d |-> [OR1 |-> "cardiac", OR2 |-> "orthopedic", OR3 |-> "cardiac"]],
       [name |-> "patient_location",
        d |-> [patient1 |-> "OR1", patient2 |-> "OR2", patient3 |-> "OR3"]],
       [name |-> "patient_surgery_type",
        d |-> [patient1 |-> "cardiac", patient2 |-> "orthopedic", patient3 |-> "cardiac"]],
       [name |-> "surgery_complete",
        d |-> [patient1 |-> FALSE, patient2 |-> FALSE, patient3 |-> FALSE]] >>

\* initial_time='2025-01-15T08:00:00Z', as ms since that day's midnight
HealthcareInitTime == IsoZ(8 * 3600 * MsPerSecond)

(***************************************************************************)
(* The temporal travel domain and problem.  Money is counted in halves of  *)
(* a unit, so that taxi_rate (1.5 + 0.5 * dist) stays an integer: cash 20  *)
(* is 40 halves.  A dictionary lookup d.get(k) yields Num(d[k]) or None.   *)
(***************************************************************************)
Get(d, k) == IF k \in DOMAIN d THEN Num(d[k]) ELSE None

\* taxi_rate(dist) = 1.5 + 0.5 * dist, in halves
taxi_rate(dist) == 3 + dist

\* state.rigid['dist'].get((x, y)) or state.rigid['dist'].get((y, x)):
\* the second lookup is made when the first yields None or 0
distance(h, s, x, y) ==
    Bind(Get(Attr(h, s, "rigid").dist, <<x, y>>), LAMBDA first :
        IF first # None /\ first.v # 0 THEN first
        ELSE Get(Attr(h, s, "rigid").dist, <<y, x>>))

is_a(h, s, var, type) ==
    \E i \in 1..Len(Attr(h, s, "rigid").types[type]) :
        Attr(h, s, "rigid").types[type][i] = var

a_walk(h, s, p, x, y) ==
    IF /\ is_a(h, s, p, "person") /\ is_a(h, s, x, "location")
       /\ is_a(h, s, y, "location") /\ x # y
       /\ Attr(h, s, "loc")[p] = x
    THEN [ok |-> TRUE, heap |-> SetItem(h, s, "loc", p, y)]
    ELSE [ok |-> FALSE, heap |-> h]

a_call_taxi(h, s, p, x) ==
    IF is_a(h, s, p, "person") /\ is_a(h, s, x, "location")
    THEN [ok |-> TRUE,
          heap |-> SetItem(SetItem(h, s, "loc", "taxi1", x), s, "loc", p, "taxi1")]
    ELSE [ok |-> FALSE, heap |-> h]

\* taxi = state.loc[p]; x = state.loc[taxi]
a_ride_taxi(h, s, p, y) ==
    IF /\ is_a(h, s, p, "person")
       /\ is_a(h, s, Attr(h, s, "loc")[p], "taxi")
       /\ is_a(h, s, y, "location")
       /\ is_a(h, s, Attr(h, s, "loc")[Attr(h, s, "loc")[p]], "location")
       /\ Attr(h, s, "loc")[Attr(h, s, "loc")[p]] # y
    THEN [ok |-> TRUE,
          heap |-> SetItem(SetItem(h, s, "loc", Attr(h, s, "loc")[p], y),
                           s, "owe", p,
                           taxi_rate(distance(h, s, Attr(h, s, "loc")[Attr(h, s, "loc")[p]],
                                              y).v))]
    ELSE [ok |-> FALSE, heap |-> h]

a_pay_driver(h, s, p, y) ==
    IF /\ is_a(h, s, p, "person")
       /\ Attr(h, s, "cash")[p] >= Attr(h, s, "owe")[p]
    THEN [ok |-> TRUE,
          heap |-> SetItem(SetItem(SetItem(h, s, "cash", p,
                                           Attr(h, s, "cash")[p] - Attr(h, s, "owe")[p]),
                                   s, "owe", p, 0),
                           s, "loc", p, y)]
    ELSE [ok |-> FALSE, heap |-> h]

PT5M == Chr(<<"P", "T", "5", "M">>)
PT0S == Chr(<<"P", "T", "0", "S">>)
PT10M == Chr(<<"P", "T", "1", "0", "M">>)

\* the list the domain file hands to declare_temporal_actions
TravelTemporalActions ==
    << Entry3("a_walk", Fn("a_walk"), PT5M),
       Entry3("a_call_taxi", Fn("a_call_taxi"), PT0S),
       Entry3("a_ride_taxi", Fn("a_ride_taxi"), PT10M),
       Entry3("a_pay_driver", Fn("a_pay_driver"), PT0S) >>

\* a faulty variant of tm_do_nothing: the failure sentinel in place of the
\* empty task list
tm_do_nothing_refusing(h, s, p, y) == [applies |-> FALSE, tasks |-> <<>>]

\* x = state.loc[p].  In tm_travel_by_foot and tm_travel_by_taxi the
\* distance of a pair that rigid['dist'] lists in neither order is None,
\* and its comparison or arithmetic raises TypeError.
tm_do_nothing(h, s, p, y) ==
    IF /\ is_a(h, s, p, "person") /\ is_a(h, s, y, "location")
       /\ Attr(h, s, "loc")[p] = y
    THEN [applies |-> TRUE, tasks |-> <<>>]
    ELSE [applies |-> FALSE, tasks |-> <<>>]

tm_travel_by_foot(h, s, p, y) ==
    IF /\ is_a(h, s, p, "person") /\ is_a(h, s, y, "location")
       /\ Attr(h, s, "loc")[p] # y
       /\ distance(h, s, Attr(h, s, "loc")[p], y).v <= 2
    THEN [applies |-> TRUE, tasks |-> << <<"a_walk", p, Attr(h, s, "loc")[p], y>> >>]
    ELSE [applies |-> FALSE, tasks |-> <<>>]

tm_travel_by_taxi(h, s, p, y) ==
    IF /\ is_a(h, s, p, "person") /\ is_a(h, s, y, "location")
       /\ Attr(h, s, "loc")[p] # y
       /\ Attr(h, s, "cash")[p] >= taxi_rate(distance(h, s, Attr(h, s, "loc")[p], y).v)
    THEN [applies |-> TRUE,
          tasks |-> << <<"a_call_taxi", p, Attr(h, s, "loc")[p]>>,
                       <<"a_ride_taxi", p, y>>,
                       <<"a_pay_driver", p, y>> >>]
    ELSE [applies |-> FALSE, tasks |-> <<>>]

\* a faulty variant of the declaration: the taxi before the walk
TravelMethodsTaxiFirst ==
    [travel |-> <<"tm_do_nothing", "tm_travel_by_taxi", "tm_travel_by_foot">>]

\* methods.declare_task_methods('travel', [...])
TravelMethods ==
    [travel |-> <<"tm_do_nothing", "tm_travel_by_foot", "tm_travel_by_taxi">>]

\* rigid_relations of the problem file
TravelRigid ==
    [types |-> [person |-> <<"alice", "bob">>,
                location |-> <<"home_a", "home_b", "park", "station", "downtown">>,
                taxi |-> <<"taxi1", "taxi2">>],
     dist |-> (<<"home_a", "park">> :> 8) @@ (<<"home_b", "park">> :> 2)
              @@ (<<"station", "home_a">> :> 1) @@ (<<"station", "home_b">> :> 7)
              @@ (<<"downtown", "home_a">> :> 3) @@ (<<"downtown", "home_b">> :> 7)
              @@ (<<"station", "downtown">> :> 2)]

\* the attributes of the problem file's init_state, in assignment order;
\* alice's cash is a parameter (20 in the problem file)
TravelInitDicts(alice_cash) ==
    << [name |-> "rigid", d |-> TravelRigid],
       [name |-> "loc",
        d |-> [alice |-> "home_a", bob |-> "home_b", taxi1 |-> "park",
               taxi2 |-> "station"]],
       [name |-> "cash", d |-> [alice |-> 2 * alice_cash, bob |-> 2 * 15]],
       [name |-> "owe", d |-> [alice |-> 0, bob |-> 0]] >>

\* initial_time='2025-01-01T10:00:00Z', as ms since that day's midnight
TravelInitTime == IsoZ(10 * 3600 * MsPerSecond)

\* action(state, *args): the call of the function registered under a name
CallAction(fn, h, s, args) ==
    CASE fn.name = "a_prepare_room" -> a_prepare_room(h, s, args[1], args[2])
      [] fn.name = "a_perform_surgery" -> a_perform_surgery(h, s, args[1], args[2], args[3])
      [] fn.name = "a_recover_patient" -> a_recover_patient(h, s, args[1], args[2])
      [] fn.name = "a_clean_room" -> a_clean_room(h, s, args[1])
      [] fn.name = "a_walk" -> a_walk(h, s, args[1], args[2], args[3])
      [] fn.name = "a_call_taxi" -> a_call_taxi(h, s, args[1], args[2])
      [] fn.name = "a_ride_taxi" -> a_ride_taxi(h, s, args[1], args[2])
      [] fn.name = "a_pay_driver" -> a_pay_driver(h, s, args[1], args[2])
      [] OTHER -> a_poison(h, s)

\* method(state, *args)
CallMethod(name, h, s, args) ==
    CASE name = "tm_schedule_surgery" -> tm_schedule_surgery(h, s, args[1], args[2], args[3])
      [] name = "tm_schedule_simple_surgery" ->
            tm_schedule_simple_surgery(h, s, args[1], args[2], args[3])
      [] name = "tm_do_nothing" -> tm_do_nothing(h, s, args[1], args[2])
      [] name = "tm_travel_by_foot" -> tm_travel_by_foot(h, s, args[1], args[2])
      [] name = "tm_travel_by_taxi" -> tm_travel_by_taxi(h, s, args[1], args[2])


(***************************************************************************)
(* The solution tree.  A node is [task, parent, children, state, midx,     *)
(* action]: state is the reference of the state before refinement (0: not  *)
(* refined yet), midx the method index (1-based) from which candidates are *)
(* tried and, once a method is chosen, the index chosen; action is None or *)
(* the plan element of a committed primitive.                              *)
(***************************************************************************)
Node(task, parent) ==
    [task |-> task, parent |-> parent, children |-> <<>>, state |-> 0, midx |-> 1,
     action |-> None]

\* the two shapes of a plan element
BareElement(task) == [shape |-> "bare", action |-> task]
PairElement(task, temporal) == [shape |-> "pair", action |-> task, temporal |-> temporal]

IsAction(reg, task) == task[1] \in DOMAIN reg.action_dict
IsCompound(methods, task) == task[1] \in DOMAIN methods

\* the in-order traversal of the primitive leaves below node n
RECURSIVE PlanOf(_, _)
RECURSIVE PlanOfList(_, _)
PlanOf(t, n) ==
    IF t[n].action # None THEN <<t[n].action>> ELSE PlanOfList(t, t[n].children)
PlanOfList(t, ns) ==
    IF ns = <<>> THEN <<>> ELSE PlanOf(t, Head(ns)) \o PlanOfList(t, Tail(ns))

\* the leftmost unresolved task once node n is resolved: its next sibling,
\* else the next sibling of the nearest ancestor that has one; 0 when none
RECURSIVE NextFrontier(_, _)
NextFrontier(t, n) ==
    IF t[n].parent = 0 THEN 0
    ELSE LET p == t[n].parent
             k == CHOOSE k \in 1..Len(t[p].children) : t[p].children[k] = n
         IN  IF k < Len(t[p].children) THEN t[p].children[k + 1]
             ELSE NextFrontier(t, p)

\* the nearest ancestor of n that still has an unexplored method
\* alternative; 0 when the root is reached without one
RECURSIVE ChoicePoint(_, _, _)
ChoicePoint(t, methods, n) ==
    LET p == t[n].parent
    IN  IF p = 0 THEN 0
        ELSE IF /\ t[p].parent # 0
                /\ IsCompound(methods, t[p].task)
                /\ t[p].midx < Len(methods[t[p].task[1]])
        THEN p
        ELSE ChoicePoint(t, methods, p)

(***************************************************************************)
(* The planner engine.  Each operator below computes the engine's next     *)
(* configuration [heap, tree, frontier, cur, pc, result].                  *)
(***************************************************************************)
Config(h, t, f, c, p, r) ==
    [heap |-> h, tree |-> t, frontier |-> f, cur |-> c, pc |-> p, result |-> r]

Outcome(status, plan) == [status |-> status, plan |-> plan]

\* a faulty variant of retraction: every failure is taken for exhaustion
RetractToRoot(h, t, methods, n) ==
    Config(h, t, 0, 0, "failed", Outcome("PlanNotFound", None))

\* a faulty variant of Retract: the choice point keeps its method index
RetractWithoutAdvance(h, t, methods, n) ==
    Bind(ChoicePoint(t, methods, n), LAMBDA a :
        IF a = 0
        THEN Config(h, t, 0, 0, "failed", Outcome("PlanNotFound", None))
        ELSE Config(SubSeq(h, 1, t[a].state),
                    [SubSeq(t, 1, t[a].children[1] - 1) EXCEPT ![a].children = <<>>],
                    a, t[a].state, "run", None))

\* retraction from node n: discard the subtree below the choice point,
\* advance its method index, restore its pre-state; without a choice point
\* the top-level plan fails
Retract(h, t, methods, n) ==
    Bind(ChoicePoint(t, methods, n), LAMBDA a :
        IF a = 0
        THEN Config(h, t, 0, 0, "failed", Outcome("PlanNotFound", None))
        ELSE Config(SubSeq(h, 1, t[a].state),
                    [SubSeq(t, 1, t[a].children[1] - 1) EXCEPT
                        ![a].children = <<>>, ![a].midx = @ + 1],
                    a, t[a].state, "run", None))

\* the temporal metadata of a primitive committed at cursor start:
\* duration as declared, start, end derived; [tm, raised]
Stamp(reg, name, start) ==
    Bind(get_temporal_metadata(reg, name), LAMBDA declared :
    Bind(NewTemporalMetadata(declared.duration, start, None), LAMBDA made :
        IF made.raised # None THEN made
        ELSE Bind(calculate_end_from_duration(made.tm), LAMBDA derived :
            IF ~derived.ok THEN [tm |-> made.tm, raised |-> [exc |-> "ValueError"]]
            ELSE [tm |-> derived.tm, raised |-> None])))

\* the primitive at node n is committed: the node records its pre-state s
\* and its plan element, the clone c becomes the inherited state
Commit(h1, t, n, s, c, element) ==
    Bind([t EXCEPT ![n].state = s, ![n].action = element], LAMBDA t1 :
        Config(h1, t1, NextFrontier(t1, n), c, "run", None))

\* the frontier n names an action: apply its effect function to a clone of
\* the inherited state s
RefinePrimitive(h, t, reg, methods, n, s) ==
    Bind(t[n].task, LAMBDA task :
    Bind(Copy(h, s), LAMBDA c :
    Bind(CallAction(reg.action_dict[task[1]], c.heap, c.ref, Tail(task)), LAMBDA r :
        IF ~r.ok
        THEN Retract(SubSeq(r.heap, 1, Len(h)), t, methods, n)
        ELSE IF ~has_temporal_info(reg, task[1])
        THEN Commit(r.heap, t, n, s, c.ref, BareElement(task))
        ELSE Bind(get_current_time(h, s), LAMBDA start :
             Bind(Stamp(reg, task[1], start), LAMBDA st :
                IF st.raised # None
                THEN Config(h, t, n, s, "error", Outcome(st.raised.exc, None))
                ELSE Commit(add_to_timeline(
                                set_current_time(r.heap, c.ref, st.tm.end_time),
                                c.ref, task, start, st.tm.end_time),
                            t, n, s, c.ref, PairElement(task, to_dict(st.tm))))))))

\* the first method from index i on that returns a task list; 0 when none
RECURSIVE FirstApplicable(_, _, _, _, _)
FirstApplicable(ms, h, s, args, i) ==
    IF i > Len(ms) THEN 0
    ELSE IF CallMethod(ms[i], h, s, args).applies THEN i
    ELSE FirstApplicable(ms, h, s, args, i + 1)

\* the frontier n names a compound task: adopt the first candidate method
\* from the node's stored index on and create its children in order
RefineCompound(h, t, methods, n, s) ==
    Bind(t[n].task, LAMBDA task :
    Bind(methods[task[1]], LAMBDA ms :
    Bind(FirstApplicable(ms, h, s, Tail(task), t[n].midx), LAMBDA j :
        IF j = 0 THEN Retract(h, t, methods, n)
        ELSE Bind(CallMethod(ms[j], h, s, Tail(task)).tasks, LAMBDA subtasks :
             Bind([i \in 1..Len(subtasks) |-> Len(t) + i], LAMBDA kids :
             Bind([t EXCEPT ![n].state = s, ![n].midx = j, ![n].children = kids]
                     \o [i \in 1..Len(subtasks) |-> Node(subtasks[i], n)],
                  LAMBDA t1 :
                Config(h, t1, IF kids # <<>> THEN kids[1] ELSE NextFrontier(t1, n),
                       s, "run", None)))))))

\* plan(state, task_list): the root holds a clone of the caller's state and
\* has the input tasks as children, in order
StartPlan(h, state, tasks) ==
    Bind(Copy(h, state), LAMBDA c :
    Bind([i \in 1..Len(tasks) |-> 1 + i], LAMBDA kids :
        Config(c.heap,
               <<[Node(<<"root">>, 0) EXCEPT !.state = c.ref, !.children = kids]>>
                   \o [i \in 1..Len(tasks) |-> Node(tasks[i], 1)],
               IF kids # <<>> THEN kids[1] ELSE 0, c.ref, "run", None)))


\* the components a specification does not use stay at rest
StnOff == sheap = <<>> /\ srefs = <<>> /\ slast = None /\ sadds = 0
DurOff == dpc = "off" /\ darg = None /\ dret = None
MetaOff == meta = None /\ mlast = None /\ mcalls = 0
RegOff == areg = None /\ alast = None /\ acalls = 0
StateOff == theap = <<>> /\ trefs = <<>> /\ tlast = None /\ tcalls = 0
ApiOff == MetaOff /\ RegOff /\ StateOff
PlannerOff ==
    /\ heap = <<>> /\ actions = None /\ call = None /\ pc = "off" /\ tree = <<>>
    /\ frontier = 0 /\ cur = 0 /\ result = None /\ runs = 0 /\ prev = None
    /\ snapshot = None /\ localtz = 0

(***************************************************************************)
(* The inputs of a planning call.  The registry is the healthcare domain's *)
(* declaration, or that declaration with one action declared differently:  *)
(* registered under its name with an effect function that always fails     *)
(* ("poison"), declared by declare_actions without a duration ("plain"),   *)
(* left out ("absent"), or declared again in the two-element form with the *)
(* duration 0 ("instant").  The tasks are the problem file's and a few     *)
(* more: a patient in another room, an unknown head, a bare primitive.     *)
(***************************************************************************)
DeviantActions == {"a_perform_surgery", "a_clean_room"}

Deviations ==
    {[kind |-> "none", name |-> "a_clean_room"]}
        \cup {[kind |-> k, name |-> n] : k \in {"poison", "plain", "absent", "instant"},
                                         n \in DeviantActions}

Registry(dev) ==
    Bind(IF dev.kind = "plain"
         THEN declare_actions(NewActions, <<Fn(dev.name)>>).reg
         ELSE NewActions,
         LAMBDA r0 :
    Bind(declare_temporal_actions(
            r0, SelectSeq(HealthcareTemporalActions,
                          LAMBDA e : dev.kind \in {"plain", "absent"} => e.name # dev.name)).reg,
         LAMBDA r1 :
        IF dev.kind = "poison"
        THEN declare_temporal_actions(
                r1, <<Entry3(dev.name, Fn("a_poison"),
                             get_temporal_metadata(r1, dev.name).duration)>>).reg
        ELSE IF dev.kind = "instant"
        THEN declare_temporal_actions(r1, <<Entry2(Fn(dev.name), Num(0))>>).reg
        ELSE r1))

TaskPool ==
    { <<"schedule_surgery", "patient1", "OR1", "cardiac">>,
      <<"schedule_surgery", "patient2", "OR2", "orthopedic">>,
      <<"schedule_surgery", "patient3", "OR3", "cardiac">>,
      <<"schedule_surgery", "patient3", "OR1", "cardiac">>,
      <<"a_clean_room", "OR1">>,
      <<"frobnicate">> }

TaskLists == UNION {[1..n -> TaskPool] : n \in 0..MaxTasks}

\* initial_time as the problem file gives it, with a numeric offset, and
\* without a zone
InitTimes ==
    {HealthcareInitTime, IsoOffset(9 * 3600 * MsPerSecond, 3600 * MsPerSecond),
     IsoNaive(8 * 3600 * MsPerSecond)}

\* the local zone of the host: UTC, or UTC+01:00
HostOffsets == {0, 3600 * MsPerSecond}

Init ==
    \E dev \in Deviations, tasks \in TaskLists, time \in InitTimes, tz \in HostOffsets :
        LET st == NewState(<<>>, HealthcareInitDicts, time)
        IN  /\ localtz = tz
            /\ heap = st.heap
            /\ actions = Registry(dev)
            /\ call = [methods |-> HealthcareMethods, state |-> st.ref, tasks |-> tasks]
            /\ pc = "idle"
            /\ tree = <<>>
            /\ frontier = 0
            /\ cur = 0
            /\ result = None
            /\ runs = 0
            /\ prev = None
            /\ snapshot = StateValue(st.heap, st.ref)
            /\ StnOff
            /\ DurOff
            /\ ApiOff

Apply(e) ==
    /\ heap' = e.heap
    /\ tree' = e.tree
    /\ frontier' = e.frontier
    /\ cur' = e.cur
    /\ pc' = e.pc
    /\ result' = e.result

\* planner.plan(state, task_list).  What an earlier call allocated is
\* unreachable once the planner's tree is replaced, and is dropped.
Plan ==
    /\ pc # "run"
    /\ runs < MaxRuns
    /\ Apply(StartPlan(SubSeq(heap, 1, call.state), call.state, call.tasks))
    /\ runs' = runs + 1
    /\ prev' = result
    /\ UNCHANGED <<actions, call, snapshot, localtz, stnvars, durvars, apivars>>

\* one iteration of the refinement loop on a task that names an action
RefineAction ==
    /\ pc = "run"
    /\ frontier # 0
    /\ IsAction(actions, tree[frontier].task)
    /\ Apply(RefinePrimitive(heap, tree, actions, call.methods, frontier, cur))
    /\ UNCHANGED <<actions, call, runs, prev, snapshot, localtz, stnvars, durvars, apivars>>

\* one iteration of the refinement loop on a compound task
RefineTask ==
    /\ pc = "run"
    /\ frontier # 0
    /\ ~IsAction(actions, tree[frontier].task)
    /\ IsCompound(call.methods, tree[frontier].task)
    /\ Apply(RefineCompound(heap, tree, call.methods, frontier, cur))
    /\ UNCHANGED <<actions, call, runs, prev, snapshot, localtz, stnvars, durvars, apivars>>

\* the head of the frontier's task is unrecognised
RaiseUnknownTask ==
    /\ pc = "run"
    /\ frontier # 0
    /\ ~IsAction(actions, tree[frontier].task)
    /\ ~IsCompound(call.methods, tree[frontier].task)
    /\ pc' = "error"
    /\ result' = Outcome("UnknownTask", None)
    /\ UNCHANGED <<heap, tree, frontier, cur, actions, call, runs, prev, snapshot,
                   localtz, stnvars, durvars, apivars>>

\* the frontier is empty: the plan is the tree's leaves in order
ReturnPlan ==
    /\ pc = "run"
    /\ frontier = 0
    /\ pc' = "done"
    /\ result' = Outcome("ok", PlanOf(tree, 1))
    /\ UNCHANGED <<heap, tree, frontier, cur, actions, call, runs, prev, snapshot,
                   localtz, stnvars, durvars, apivars>>

Next == Plan \/ RefineAction \/ RefineTask \/ RaiseUnknownTask \/ ReturnPlan

Spec == Init /\ [][Next]_vars


(***************************************************************************)
(* Planning calls in the temporal travel domain.  The tasks send a person  *)
(* to a location, or have an unknown head; alice's cash is the problem     *)
(* file's 20 or 5.  The task lists drawn are those in which every pair of  *)
(* locations whose distance is looked up is listed in rigid['dist'].       *)
(***************************************************************************)
TravelTaskPool ==
    {<<"travel", p, y>> : p \in {"alice", "bob"},
                          y \in {"home_a", "home_b", "park", "station", "downtown"}}
        \cup {<<"fly", "alice", "park">>}

RECURSIVE Listed(_, _)
Listed(loc, tasks) ==
    IF tasks = <<>> THEN TRUE
    ELSE IF Head(tasks)[1] # "travel" THEN Listed(loc, Tail(tasks))
    ELSE /\ \/ loc[Head(tasks)[2]] = Head(tasks)[3]
            \/ <<loc[Head(tasks)[2]], Head(tasks)[3]>> \in DOMAIN TravelRigid.dist
            \/ <<Head(tasks)[3], loc[Head(tasks)[2]]>> \in DOMAIN TravelRigid.dist
         /\ Listed([loc EXCEPT ![Head(tasks)[2]] = Head(tasks)[3]], Tail(tasks))

TravelTaskLists ==
    {tasks \in UNION {[1..n -> TravelTaskPool] : n \in 0..MaxTasks} :
        Listed(TravelInitDicts(20)[2].d, tasks)}

TravelInit ==
    \E alice_cash \in {20, 5}, tasks \in TravelTaskLists, tz \in HostOffsets :
        LET st == NewState(<<>>, TravelInitDicts(alice_cash), TravelInitTime)
        IN  /\ localtz = tz
            /\ heap = st.heap
            /\ actions = declare_temporal_actions(NewActions, TravelTemporalActions).reg
            /\ call = [methods |-> TravelMethods, state |-> st.ref, tasks |-> tasks]
            /\ pc = "idle"
            /\ tree = <<>>
            /\ frontier = 0
            /\ cur = 0
            /\ result = None
            /\ runs = 0
            /\ prev = None
            /\ snapshot = StateValue(st.heap, st.ref)
            /\ StnOff
            /\ DurOff
            /\ ApiOff

TravelSpec == TravelInit /\ [][Next]_vars


\* the instant a datetime string names, in ms of UTC; a string without a
\* zone is read in UTC (off is 0)
UtcMs(str) == str.wall - str.off

(***************************************************************************)
(* Reference notions for the properties: the replay of a plan, and the     *)
(* search of section 4.7 written as a recursive function of the state.     *)
(***************************************************************************)
Terminal == pc \in {"done", "failed", "error"}

Unrecognised(task) == ~IsAction(actions, task) /\ ~IsCompound(call.methods, task)

\* the action tuples of a plan, and its stamped elements
ActionsOf(plan) == [i \in 1..Len(plan) |-> plan[i].action]
Stamped(plan) == SelectSeq(plan, LAMBDA e : e.shape = "pair")

\* the plan under construction: the in-order traversal of the tree's leaves
CurrentPlan == PlanOf(tree, 1)

\* the effect functions of the plan's elements from the i-th on, applied in
\* plan order to the State at s: [ok, heap]
RECURSIVE Replay(_, _, _, _, _)
Replay(reg, h, s, plan, i) ==
    IF i > Len(plan) THEN [ok |-> TRUE, heap |-> h]
    ELSE Bind(CallAction(reg.action_dict[plan[i].action[1]], h, s, Tail(plan[i].action)),
              LAMBDA r : IF r.ok THEN Replay(reg, r.heap, s, plan, i + 1) ELSE r)

\* the search as a function: the tasks are accomplished in order on the
\* State at s; a compound task takes its first method whose task list can
\* be accomplished; [status, heap], status is "ok", "fail" or "unknown"
RECURSIVE SeekList(_, _, _, _, _)
RECURSIVE SeekMethods(_, _, _, _, _, _)
SeekTask(reg, methods, h, s, task) ==
    IF IsAction(reg, task)
    THEN Bind(CallAction(reg.action_dict[task[1]], h, s, Tail(task)), LAMBDA r :
            [status |-> IF r.ok THEN "ok" ELSE "fail", heap |-> r.heap])
    ELSE IF IsCompound(methods, task) THEN SeekMethods(reg, methods, h, s, task, 1)
    ELSE [status |-> "unknown", heap |-> h]

SeekList(reg, methods, h, s, tasks) ==
    IF tasks = <<>> THEN [status |-> "ok", heap |-> h]
    ELSE Bind(SeekTask(reg, methods, h, s, Head(tasks)), LAMBDA r :
            IF r.status # "ok" THEN r
            ELSE SeekList(reg, methods, r.heap, s, Tail(tasks)))

SeekMethods(reg, methods, h, s, task, i) ==
    IF i > Len(methods[task[1]]) THEN [status |-> "fail", heap |-> h]
    ELSE Bind(CallMethod(methods[task[1]][i], h, s, Tail(task)), LAMBDA m :
            IF ~m.applies THEN SeekMethods(reg, methods, h, s, task, i + 1)
            ELSE Bind(SeekList(reg, methods, h, s, m.tasks), LAMBDA r :
                    IF r.status = "fail"
                    THEN SeekMethods(reg, methods, h, s, task, i + 1)
                    ELSE r))

\* the search of the call's tasks from the caller's state
SeekCall == SeekList(actions, call.methods, heap, call.state, call.tasks)

\* the sum of the durations of the elements of a stamped plan, in ms
RECURSIVE SumDurations(_, _)
SumDurations(plan, i) ==
    IF i > Len(plan) THEN 0
    ELSE parse_iso8601_duration(plan[i].temporal.duration).v + SumDurations(plan, i + 1)

(***************************************************************************)
(* C1  Soundness of plan(): when plan() returns a plan, replaying the      *)
(* plan's actions in plan order on a copy of the initial state succeeds at *)
(* every step: no effect function returns the failure sentinel on the      *)
(* state its predecessors produced.                                        *)
(***************************************************************************)
C1_Soundness ==
    pc = "done" =>
        Bind(Copy(heap, call.state), LAMBDA c :
            Replay(actions, c.heap, c.ref, result.plan, 1).ok)

\* a plan of two decompositions has been returned
C1_Witness == pc = "done" /\ Len(result.plan) >= 7

(***************************************************************************)
(* C2  Temporal monotonicity: in every returned plan each stamped          *)
(* primitive has start <= end, and of two adjacent stamped primitives the  *)
(* first ends no later than the second starts.                             *)
(***************************************************************************)
MonotonicStamps(plan) ==
    Bind(Stamped(plan), LAMBDA sp :
        /\ \A i \in 1..Len(sp) :
              UtcMs(sp[i].temporal.start_time) <= UtcMs(sp[i].temporal.end_time)
        /\ \A i \in 1..(Len(sp) - 1) :
              UtcMs(sp[i].temporal.end_time) <= UtcMs(sp[i + 1].temporal.start_time))

C2_Monotonic == pc = "done" => MonotonicStamps(result.plan)

\* C2, for an initial time that names its zone or a host whose local zone
\* is UTC: the stamps of every returned plan are monotonic
C2_MonotonicZoned ==
    (pc = "done" /\ (snapshot.time.zone # "naive" \/ localtz = 0))
        => MonotonicStamps(result.plan)

\* a returned plan with a primitive of positive duration followed by one of
\* duration zero, in a zone other than UTC
C2_Witness ==
    /\ pc = "done"
    /\ \E i \in 1..(Len(result.plan) - 1) :
          /\ result.plan[i].shape = "pair"
          /\ result.plan[i + 1].shape = "pair"
          /\ result.plan[i].temporal.start_time.zone = "offset"
          /\ UtcMs(result.plan[i].temporal.start_time)
                < UtcMs(result.plan[i].temporal.end_time)
          /\ result.plan[i + 1].temporal.start_time = result.plan[i + 1].temporal.end_time

(***************************************************************************)
(* C3  Method ordering and backtracking: the method a compound node has    *)
(* adopted applies in the node's pre-state, and every method declared      *)
(* before it is either inapplicable there or fails below (its task list    *)
(* cannot be accomplished); the node's plan is the adopted method's task   *)
(* list (the methods of this domain return primitives).  In the healthcare *)
(* scenario the first-declared method tm_schedule_surgery is adopted and   *)
(* gives its four actions; when a_clean_room always fails the planner      *)
(* retracts and returns the three actions of tm_schedule_simple_surgery.   *)
(***************************************************************************)
AdoptedInOrder(n) ==
    Bind(call.methods[tree[n].task[1]], LAMBDA ms :
    Bind(Tail(tree[n].task), LAMBDA args :
        /\ tree[n].midx \in 1..Len(ms)
        /\ CallMethod(ms[tree[n].midx], heap, tree[n].state, args).applies
        /\ \A i \in 1..(tree[n].midx - 1) :
              Bind(CallMethod(ms[i], heap, tree[n].state, args), LAMBDA m :
                  \/ ~m.applies
                  \/ SeekList(actions, call.methods, heap, tree[n].state, m.tasks).status
                        = "fail")
        /\ pc = "done" =>
              ActionsOf(PlanOf(tree, n))
                  = CallMethod(ms[tree[n].midx], heap, tree[n].state, args).tasks))

FirstSurgery == <<"schedule_surgery", "patient1", "OR1", "cardiac">>

C3_MethodOrder ==
    /\ pc \in {"run", "done"} =>
          \A n \in 2..Len(tree) :
              (n # frontier /\ tree[n].state # 0 /\ ~IsAction(actions, tree[n].task)
                  /\ IsCompound(call.methods, tree[n].task))
                  => AdoptedInOrder(n)
    /\ (pc = "done" /\ call.tasks = <<FirstSurgery>>
            /\ actions = Registry([kind |-> "none", name |-> "a_clean_room"]))
          => /\ call.methods.schedule_surgery[tree[2].midx] = "tm_schedule_surgery"
             /\ ActionsOf(result.plan)
                  = << <<"a_prepare_room", "OR1", "cardiac">>,
                       <<"a_perform_surgery", "patient1", "OR1", "cardiac">>,
                       <<"a_recover_patient", "patient1", "OR1">>,
                       <<"a_clean_room", "OR1">> >>
    /\ (Terminal /\ call.tasks = <<FirstSurgery>>
            /\ actions = Registry([kind |-> "poison", name |-> "a_clean_room"]))
          => /\ pc = "done"
             /\ call.methods.schedule_surgery[tree[2].midx] = "tm_schedule_simple_surgery"
             /\ ActionsOf(result.plan)
                  = << <<"a_prepare_room", "OR1", "cardiac">>,
                       <<"a_perform_surgery", "patient1", "OR1", "cardiac">>,
                       <<"a_recover_patient", "patient1", "OR1">> >>

\* a plan was returned after the first method, applicable, failed at its
\* last action and the second method was adopted
C3_Witness ==
    /\ pc = "done"
    /\ call.tasks = <<FirstSurgery>>
    /\ tree[2].midx = 2
    /\ tm_schedule_surgery(heap, tree[2].state, "patient1", "OR1", "cardiac").applies
    /\ Len(result.plan) = 3

(***************************************************************************)
(* C4  plan() does not mutate the caller's state: at every point of a call *)
(* and after it has returned or failed, the caller's State holds the       *)
(* attributes, the current time and the timeline it held before the call.  *)
(***************************************************************************)
C4_InputUntouched == StateValue(heap, call.state) = snapshot

\* a plan was returned and the planner's final state differs from the
\* caller's in attributes, time and timeline
C4_Witness ==
    /\ pc = "done"
    /\ StateValue(heap, cur).attrs # snapshot.attrs
    /\ StateValue(heap, cur).time # snapshot.time
    /\ StateValue(heap, cur).timeline # snapshot.timeline

C6_PlanNotFound ==
    /\ pc = "failed" =>
          /\ result = Outcome("PlanNotFound", None)
          /\ SeekCall.status = "fail"
    /\ (Terminal /\ SeekCall.status = "fail") => pc = "failed"
    /\ (Terminal /\ SeekCall.status = "ok") => pc = "done"
    /\ pc = "error" => result.status = "UnknownTask"

\* the call failed although the first task was decomposed and some of its
\* actions were applied
C6_Witness ==
    /\ pc = "failed"
    /\ Len(tree) > 1 + Len(call.tasks)
    /\ \E n \in 2..Len(tree) : tree[n].action # None

StampedAt(n) ==
    Bind(tree[n].action.temporal, LAMBDA tm :
        /\ tm.duration = actions.action_temporal_dict[tree[n].task[1]].duration
        /\ tm.start_time = get_current_time(heap, tree[n].state)
        /\ UtcMs(tm.end_time)
              = UtcMs(tm.start_time) + parse_iso8601_duration(tm.duration).v)

Stamping ==
    /\ pc \in {"run", "done"} =>
          /\ \A n \in 2..Len(tree) :
                (tree[n].action # None /\ tree[n].action.shape = "pair") => StampedAt(n)
          /\ Bind(Stamped(CurrentPlan), LAMBDA sp :
                /\ \A i \in 1..(Len(sp) - 1) :
                      sp[i + 1].temporal.start_time = sp[i].temporal.end_time
                /\ sp # <<>> =>
                      /\ sp[1].temporal.start_time = snapshot.time
                      /\ get_current_time(heap, cur) = sp[Len(sp)].temporal.end_time
                /\ UtcMs(get_current_time(heap, cur))
                      = UtcMs(snapshot.time) + SumDurations(sp, 1))
    /\ (pc = "done" /\ call.tasks = <<FirstSurgery>> /\ snapshot.time = HealthcareInitTime
            /\ actions = Registry([kind |-> "none", name |-> "a_clean_room"]))
          => get_current_time(heap, cur) = IsoZ((11 * 3600 + 5 * 60) * MsPerSecond)

C8_Stamping == Stamping

\* C8, for an initial time that names its zone or a host whose local zone
\* is UTC: every committed temporal primitive is stamped start = cursor,
\* end = start + declared duration, and the cursor follows
C8_StampingZoned == (snapshot.time.zone # "naive" \/ localtz = 0) => Stamping

\* the healthcare scenario has returned its plan of four stamped actions
C8_Witness ==
    /\ pc = "done"
    /\ call.tasks = <<FirstSurgery>>
    /\ snapshot.time = HealthcareInitTime
    /\ Len(Stamped(result.plan)) = 4
    /\ SumDurations(result.plan, 1) = (3 * 3600 + 5 * 60) * MsPerSecond

(***************************************************************************)
(* C9  Plan element shape: in every returned plan a primitive whose action *)
(* is declared with a duration is the pair of its action tuple and a       *)
(* record with exactly the fields duration, start_time and end_time, and a *)
(* primitive whose action has no temporal declaration is the bare tuple.   *)
(***************************************************************************)
C9_ElementShape ==
    pc = "done" =>
        \A i \in 1..Len(result.plan) :
            Bind(result.plan[i], LAMBDA e :
                IF e.action[1] \in DOMAIN actions.action_temporal_dict
                THEN /\ e.shape = "pair"
                     /\ DOMAIN e.temporal = {"duration", "start_time", "end_time"}
                ELSE e = BareElement(e.action))

\* a returned plan holds elements of both shapes
C9_Witness ==
    /\ pc = "done"
    /\ \E i, j \in 1..Len(result.plan) :
          result.plan[i].shape = "pair" /\ result.plan[j].shape = "bare"

(***************************************************************************)
(* C10  Solution-tree invariant: at every point of the search and when     *)
(* plan() returns, the in-order traversal of the tree's primitive leaves   *)
(* is the current plan: replayed on a copy of the root's state it gives    *)
(* the attributes of the planner's current state, its stamped elements are *)
(* that state's timeline, and it is the plan plan() returns.  The children *)
(* of the root are the input tasks in order and the children of a refined  *)
(* compound node are the tasks its selected method returns, in order.      *)
(***************************************************************************)
ChildTasks(n) == [i \in 1..Len(tree[n].children) |-> tree[tree[n].children[i]].task]

C10_TreeInvariant ==
    pc \in {"run", "done"} =>
        /\ Bind(Copy(heap, tree[1].state), LAMBDA c :
           Bind(Replay(actions, c.heap, c.ref, CurrentPlan, 1), LAMBDA r :
              /\ r.ok
              /\ StateValue(r.heap, c.ref).attrs = StateValue(heap, cur).attrs))
        /\ get_timeline(heap, cur)
              = [i \in 1..Len(Stamped(CurrentPlan)) |->
                    << Stamped(CurrentPlan)[i].action,
                       Stamped(CurrentPlan)[i].temporal.start_time,
                       Stamped(CurrentPlan)[i].temporal.end_time >>]
        /\ pc = "done" => result.plan = CurrentPlan
        /\ ChildTasks(1) = call.tasks
        /\ \A n \in 2..Len(tree) :
              (n # frontier /\ tree[n].state # 0 /\ ~IsAction(actions, tree[n].task)
                  /\ IsCompound(call.methods, tree[n].task))
                  => ChildTasks(n)
                        = CallMethod(call.methods[tree[n].task[1]][tree[n].midx], heap,
                                     tree[n].state, Tail(tree[n].task)).tasks

\* the search is under way on a tree that holds a retracted-to node, leaves
\* committed before it and an unrefined task after it
C10_Witness ==
    /\ pc = "run"
    /\ frontier # 0
    /\ tree[frontier].midx = 2
    /\ tree[frontier].children = <<>>
    /\ Len(CurrentPlan) >= 3
    /\ Len(tree) > frontier


(***************************************************************************)
(* C11  In the temporal travel domain, planning ('travel', p, y) for a     *)
(* person p located at x yields the empty plan when x = y, otherwise the   *)
(* single action a_walk(p, x, y) when the distance is at most 2, otherwise *)
(* a_call_taxi(p, x), a_ride_taxi(p, y), a_pay_driver(p, y) when p's cash  *)
(* covers the taxi rate; for several travel tasks the plan is the          *)
(* concatenation of the per-task plans in task order.  A walk lasts PT5M.  *)
(***************************************************************************)
\* the distance the problem lists for a pair, in either order
ListedDistance(x, y) ==
    IF <<x, y>> \in DOMAIN TravelRigid.dist THEN TravelRigid.dist[<<x, y>>]
    ELSE TravelRigid.dist[<<y, x>>]

\* the plan the three cases give for the tasks, from the locations loc and
\* the cash (in halves) of the persons: [covered, plan]; covered is FALSE
\* when some task falls under none of the cases
RECURSIVE TravelCases(_, _, _)
TravelCases(loc, cash, tasks) ==
    IF tasks = <<>> THEN [covered |-> TRUE, plan |-> <<>>]
    ELSE IF Head(tasks)[1] # "travel" THEN [covered |-> FALSE, plan |-> <<>>]
    ELSE LET p == Head(tasks)[2]
             y == Head(tasks)[3]
             x == loc[p]
             fare == 3 + ListedDistance(x, y)
             own == IF x = y THEN <<>>
                    ELSE IF ListedDistance(x, y) <= 2 THEN << <<"a_walk", p, x, y>> >>
                    ELSE << <<"a_call_taxi", p, x>>, <<"a_ride_taxi", p, y>>,
                            <<"a_pay_driver", p, y>> >>
             rest == TravelCases([loc EXCEPT ![p] = y],
                                 IF x = y \/ ListedDistance(x, y) <= 2 THEN cash
                                 ELSE [cash EXCEPT ![p] = @ - fare],
                                 Tail(tasks))
         IN  IF x # y /\ ListedDistance(x, y) > 2 /\ cash[p] < fare
             THEN [covered |-> FALSE, plan |-> <<>>]
             ELSE [covered |-> rest.covered, plan |-> own \o rest.plan]

C11_TravelPlans ==
    (Terminal /\ TravelCases(snapshot.attrs[2].d, snapshot.attrs[3].d, call.tasks).covered)
        => /\ result.status = "ok"
           /\ ActionsOf(result.plan)
                = TravelCases(snapshot.attrs[2].d, snapshot.attrs[3].d, call.tasks).plan
           /\ \A i \in 1..Len(result.plan) :
                result.plan[i].action[1] = "a_walk"
                    => /\ result.plan[i].shape = "pair"
                       /\ result.plan[i].temporal.duration = PT5M

\* alice's taxi plan followed by bob's walk has been returned
C11_Witness ==
    /\ pc = "done"
    /\ call.tasks = << <<"travel", "alice", "park">>, <<"travel", "bob", "park">> >>
    /\ ActionsOf(result.plan)
         = << <<"a_call_taxi", "alice", "home_a">>, <<"a_ride_taxi", "alice", "park">>,
              <<"a_pay_driver", "alice", "park">>, <<"a_walk", "bob", "home_b", "park">> >>


(***************************************************************************)
(* The Simple Temporal Network.  An STN is an object on the heap sheap:    *)
(* its time_points and constraints fields are references of a set and of a *)
(* dictionary (key <<from, to>>, value <<min, max>>); dm and cons are the  *)
(* fields _distance_matrix and _consistent, None or a value.  math.inf is  *)
(* the number Inf, larger than every sum of bounds the model can form.     *)
(* A set is listed, and a dictionary's items are visited, in the order of  *)
(* PointOrder.                                                             *)
(***************************************************************************)
MaxAdds == 3

Inf == 1000000

PointOrder == <<"a", "b", "c">>

SetObj(s) == [kind |-> "set", s |-> s]
Bool(b) == [kind |-> "bool", v |-> b]
STNObj(time_points, constraints) ==
    [kind |-> "STN", time_points |-> time_points, constraints |-> constraints,
     dm |-> None, cons |-> None]

\* STN.__init__; [heap, ref]
STN_init(h) ==
    [heap |-> h \o <<SetObj({}), DictObj(<<>>), STNObj(Len(h) + 1, Len(h) + 2)>>,
     ref |-> Len(h) + 3]

\* list(self.time_points), and the keys of self.constraints
PointList(h, o) == SelectSeq(PointOrder, LAMBDA p : p \in h[h[o].time_points].s)

KeyList(h, o) ==
    SelectSeq([i \in 1..(Len(PointOrder) * Len(PointOrder)) |->
                  <<PointOrder[((i - 1) \div Len(PointOrder)) + 1],
                    PointOrder[((i - 1) % Len(PointOrder)) + 1]>>],
              LAMBDA k : k \in DOMAIN h[h[o].constraints].d)

\* a faulty variant of add_time_point: the caches are kept
add_time_point_keeping_caches(h, o, point) ==
    [h EXCEPT ![h[o].time_points] = SetObj(@.s \cup {point})]

\* STN.add_time_point
add_time_point(h, o, point) ==
    [h EXCEPT ![h[o].time_points] = SetObj(@.s \cup {point}),
              ![o].cons = None, ![o].dm = None]

\* a faulty variant of add_constraint: the constraint is stored before the
\* bounds are compared
add_constraint_unchecked(h, o, from_point, to_point, constraint) ==
    Bind(add_time_point(add_time_point(h, o, from_point), o, to_point), LAMBDA h1 :
        [heap |-> [h1 EXCEPT ![h1[o].constraints] =
                                DictObj(DictSet(@.d, <<from_point, to_point>>, constraint)),
                             ![o].cons = None, ![o].dm = None],
         raised |-> IF constraint[1] > constraint[2]
                    THEN [exc |-> "ValueError"] ELSE None])

\* STN.add_constraint; [heap, raised]
add_constraint(h, o, from_point, to_point, constraint) ==
    Bind(add_time_point(add_time_point(h, o, from_point), o, to_point), LAMBDA h1 :
        IF constraint[1] > constraint[2]
        THEN [heap |-> h1, raised |-> [exc |-> "ValueError"]]
        ELSE [heap |-> [h1 EXCEPT ![h1[o].constraints] =
                                     DictObj(DictSet(@.d, <<from_point, to_point>>,
                                                     constraint)),
                                  ![o].cons = None, ![o].dm = None],
              raised |-> None])

\* a faulty variant of the loop over the constraints: the lower bounds are
\* left out
RECURSIVE AddUpperEdges(_, _, _, _)
AddUpperEdges(dist, cs, keys, i) ==
    IF i > Len(keys) THEN dist
    ELSE AddUpperEdges(IF dist[keys[i]] > cs[keys[i]][2]
                       THEN [dist EXCEPT ![keys[i]] = cs[keys[i]][2]] ELSE dist,
                       cs, keys, i + 1)

\* the loop over self.constraints.items(): the edge from -> to gets max, the
\* edge to -> from gets -min, each only if smaller than what is there
RECURSIVE AddEdges(_, _, _, _)
AddEdges(dist, cs, keys, i) ==
    IF i > Len(keys) THEN dist
    ELSE Bind(keys[i], LAMBDA k :
         Bind(IF dist[k] > cs[k][2] THEN [dist EXCEPT ![k] = cs[k][2]] ELSE dist,
              LAMBDA d1 :
            AddEdges(IF d1[<<k[2], k[1]>>] > -cs[k][1]
                     THEN [d1 EXCEPT ![<<k[2], k[1]>>] = -cs[k][1]] ELSE d1,
                     cs, keys, i + 1)))

\* the loops for i, for j under one k, in place; step counts their
\* iterations from 0
RECURSIVE Relax(_, _, _, _)
Relax(dist, points, k, step) ==
    IF step >= Len(points) * Len(points) THEN dist
    ELSE LET i == points[(step \div Len(points)) + 1]
             j == points[(step % Len(points)) + 1]
         IN  Relax(IF /\ dist[<<i, k>>] # Inf /\ dist[<<k, j>>] # Inf
                      /\ dist[<<i, j>>] > dist[<<i, k>>] + dist[<<k, j>>]
                   THEN [dist EXCEPT ![<<i, j>>] = dist[<<i, k>>] + dist[<<k, j>>]]
                   ELSE dist,
                   points, k, step + 1)

\* the loop for k from the n-th point on
RECURSIVE FloydWarshall(_, _, _)
FloydWarshall(dist, points, n) ==
    IF n > Len(points) THEN dist
    ELSE FloydWarshall(Relax(dist, points, points[n], 0), points, n + 1)

\* STN._build_distance_matrix: the heap with the matrix stored
build_distance_matrix(h, o) ==
    Bind(PointList(h, o), LAMBDA points :
        IF Len(points) = 0 THEN [h EXCEPT ![o].dm = DictObj(<<>>)]
        ELSE Bind([k \in {<<points[i], points[j]>> : i, j \in 1..Len(points)} |->
                      IF k[1] = k[2] THEN 0 ELSE Inf], LAMBDA dist :
             [h EXCEPT ![o].dm =
                 DictObj(FloydWarshall(
                     AddEdges(dist, h[h[o].constraints].d, KeyList(h, o), 1),
                     points, 1))]))

\* STN.consistent; [heap, ret]
consistent(h, o) ==
    IF h[o].cons # None THEN [heap |-> h, ret |-> h[o].cons.v]
    ELSE Bind(IF h[o].dm = None THEN build_distance_matrix(h, o) ELSE h, LAMBDA h1 :
         Bind(\E p \in h1[h1[o].time_points].s :
                 /\ <<p, p>> \in DOMAIN h1[o].dm.d
                 /\ h1[o].dm.d[<<p, p>>] < 0, LAMBDA negative :
            [heap |-> [h1 EXCEPT ![o].cons = Bool(~negative)], ret |-> ~negative]))

\* STN.get_distance; [heap, ret], ret is None or Num(distance)
get_distance(h, o, from_point, to_point) ==
    IF from_point \notin h[h[o].time_points].s \/ to_point \notin h[h[o].time_points].s
    THEN [heap |-> h, ret |-> None]
    ELSE Bind(IF h[o].dm = None THEN build_distance_matrix(h, o) ELSE h, LAMBDA h1 :
         Bind(IF <<from_point, to_point>> \in DOMAIN h1[o].dm.d
              THEN h1[o].dm.d[<<from_point, to_point>>] ELSE Inf, LAMBDA dist :
            [heap |-> h1, ret |-> IF dist # Inf THEN Num(dist) ELSE None]))

\* STN.get_intervals: the list of (from, to, min, max)
get_intervals(h, o) ==
    Bind(KeyList(h, o), LAMBDA keys :
        [i \in 1..Len(keys) |->
            <<keys[i][1], keys[i][2],
              h[h[o].constraints].d[keys[i]][1], h[h[o].constraints].d[keys[i]][2]>>])

\* a faulty variant of copy: the new STN is bound to the same set and
\* dictionary
STN_copy_shared(h, o) ==
    [heap |-> Append(h, STNObj(h[o].time_points, h[o].constraints)), ref |-> Len(h) + 1]

\* STN.copy: a new STN whose fields are set to copies of the set and of the
\* dictionary; [heap, ref]
STN_copy(h, o) ==
    [heap |-> h \o <<SetObj(h[h[o].time_points].s), DictObj(h[h[o].constraints].d),
                     STNObj(Len(h) + 1, Len(h) + 2)>>,
     ref |-> Len(h) + 3]

\* faulty variants of check_interval_conflicts: the constraint is added to
\* the receiver itself; the receiver is tested without the constraint
check_interval_conflicts_in_place(h, o, start_point, end_point, min_duration, max_duration) ==
    Bind(add_constraint(h, o, start_point, end_point, <<min_duration, max_duration>>),
         LAMBDA added :
        IF added.raised # None
        THEN [heap |-> added.heap, ret |-> None, raised |-> added.raised]
        ELSE Bind(consistent(added.heap, o), LAMBDA verdict :
                [heap |-> verdict.heap, ret |-> Bool(~verdict.ret), raised |-> None]))

check_interval_conflicts_as_is(h, o, start_point, end_point, min_duration, max_duration) ==
    IF min_duration > max_duration
    THEN [heap |-> h, ret |-> None, raised |-> [exc |-> "ValueError"]]
    ELSE Bind(consistent(STN_copy(h, o).heap, STN_copy(h, o).ref), LAMBDA verdict :
            [heap |-> h, ret |-> Bool(~verdict.ret), raised |-> None])

\* STN.check_interval_conflicts; [heap, ret, raised].  The temporary STN is
\* unreachable after the call and is dropped from the heap.
check_interval_conflicts(h, o, start_point, end_point, min_duration, max_duration) ==
    Bind(h \o <<SetObj(h[h[o].time_points].s), DictObj(h[h[o].constraints].d),
                STNObj(Len(h) + 1, Len(h) + 2)>>, LAMBDA h1 :
    Bind(add_constraint(h1, Len(h) + 3, start_point, end_point,
                        <<min_duration, max_duration>>), LAMBDA added :
        IF added.raised # None
        THEN [heap |-> SubSeq(added.heap, 1, Len(h)), ret |-> None,
              raised |-> added.raised]
        ELSE Bind(consistent(added.heap, Len(h) + 3), LAMBDA verdict :
                [heap |-> SubSeq(verdict.heap, 1, Len(h)), ret |-> Bool(~verdict.ret),
                 raised |-> None])))

(***************************************************************************)
(* A client of the STN: it builds one network, may copy it once, and calls *)
(* the operations on the original (index 1 of srefs) and on the copy       *)
(* (index 2) in any order.  The constraints are those of the scenarios of  *)
(* the specification and a few more, one of them with min > max.           *)
(***************************************************************************)
Points == {"a", "b", "c"}

ConstraintPool ==
    { <<"a", "b", <<10, 10>>>>, <<"b", "c", <<5, 5>>>>, <<"a", "c", <<0, 10>>>>,
      <<"a", "b", <<5, 10>>>>, <<"a", "b", <<0, 3>>>>, <<"c", "a", <<-15, -10>>>>,
      <<"a", "b", <<10, 5>>>> }

DistanceQueries == { <<"a", "c">>, <<"c", "a">>, <<"b", "b">> }

ConflictQueries ==
    { <<"a", "b", <<0, 3>>>>, <<"a", "c", <<0, 10>>>>, <<"b", "c", <<10, 5>>>> }

\* what an STN holds, by value: time points, constraints, cached verdict
STNValue(h, o) ==
    [time_points |-> h[h[o].time_points].s, constraints |-> h[h[o].constraints].d,
     cons |-> h[o].cons]

\* the record of a call: operation, index of the receiver, arguments,
\* return value, exception, and the STNs as they were before it (ghost)
Called(op, on, args, ret, raised) ==
    [op |-> op, on |-> on, args |-> args, ret |-> ret, raised |-> raised,
     before |-> [i \in 1..Len(srefs) |-> STNValue(sheap, srefs[i])]]

STNInit ==
    /\ sheap = STN_init(<<>>).heap
    /\ srefs = <<STN_init(<<>>).ref>>
    /\ slast = [op |-> "STN", on |-> 1, args |-> <<>>, ret |-> None, raised |-> None,
                before |-> <<>>]
    /\ sadds = 0
    /\ PlannerOff
    /\ DurOff
    /\ ApiOff

AddTimePoint ==
    /\ sadds < MaxAdds
    /\ \E i \in 1..Len(srefs), p \in Points :
        /\ sheap' = add_time_point(sheap, srefs[i], p)
        /\ slast' = Called("add_time_point", i, <<p>>, None, None)
    /\ sadds' = sadds + 1
    /\ UNCHANGED <<srefs, planvars, durvars, apivars>>

AddConstraint ==
    /\ sadds < MaxAdds
    /\ \E i \in 1..Len(srefs), e \in ConstraintPool :
        /\ sheap' = add_constraint(sheap, srefs[i], e[1], e[2], e[3]).heap
        /\ slast' = Called("add_constraint", i, e, None,
                           add_constraint(sheap, srefs[i], e[1], e[2], e[3]).raised)
    /\ sadds' = sadds + 1
    /\ UNCHANGED <<srefs, planvars, durvars, apivars>>

Consistent ==
    /\ \E i \in 1..Len(srefs) :
        /\ sheap' = consistent(sheap, srefs[i]).heap
        /\ slast' = Called("consistent", i, <<>>,
                           Bool(consistent(sheap, srefs[i]).ret), None)
    /\ UNCHANGED <<srefs, sadds, planvars, durvars, apivars>>

GetDistance ==
    /\ \E i \in 1..Len(srefs), q \in DistanceQueries :
        /\ sheap' = get_distance(sheap, srefs[i], q[1], q[2]).heap
        /\ slast' = Called("get_distance", i, q,
                           get_distance(sheap, srefs[i], q[1], q[2]).ret, None)
    /\ UNCHANGED <<srefs, sadds, planvars, durvars, apivars>>

CheckIntervalConflicts ==
    /\ \E i \in 1..Len(srefs), e \in ConflictQueries :
        Bind(check_interval_conflicts(sheap, srefs[i], e[1], e[2], e[3][1], e[3][2]),
             LAMBDA r :
                /\ sheap' = r.heap
                /\ slast' = Called("check_interval_conflicts", i, e, r.ret, r.raised))
    /\ UNCHANGED <<srefs, sadds, planvars, durvars, apivars>>

CopySTN ==
    /\ Len(srefs) = 1
    /\ sheap' = STN_copy(sheap, srefs[1]).heap
    /\ srefs' = <<srefs[1], STN_copy(sheap, srefs[1]).ref>>
    /\ slast' = Called("copy", 1, <<>>, None, None)
    /\ UNCHANGED <<sadds, planvars, durvars, apivars>>

\* stn = stn.copy(): the client goes on with the copy; the original is
\* unreachable and is dropped from the heap
ReplaceByCopy ==
    /\ Len(srefs) = 1
    /\ Bind(STN_copy(sheap, srefs[1]), LAMBDA r :
            /\ sheap' = << r.heap[r.heap[r.ref].time_points],
                           r.heap[r.heap[r.ref].constraints],
                           [r.heap[r.ref] EXCEPT !.time_points = 1, !.constraints = 2] >>
            /\ srefs' = <<3>>)
    /\ slast' = Called("copy", 1, <<>>, None, None)
    /\ UNCHANGED <<sadds, planvars, durvars, apivars>>

\* one network
STNNext ==
    AddTimePoint \/ AddConstraint \/ Consistent \/ GetDistance \/ CheckIntervalConflicts
        \/ ReplaceByCopy

STNSpec == STNInit /\ [][STNNext]_vars

\* a network and its copy
STNCopyNext == AddTimePoint \/ AddConstraint \/ Consistent \/ CopySTN

STNCopySpec == STNInit /\ [][STNCopyNext]_vars


(***************************************************************************)
(* Reference notions for the properties of the STN.                        *)
(***************************************************************************)
Horizon == 30

\* the time points and the constraints of the STN with index i, by value
TimePoints(h, i) == h[h[srefs[i]].time_points].s
Constraints(h, i) == h[h[srefs[i]].constraints].d

\* some assignment of times in 0..Horizon to the points meets every
\* constraint: min <= t(to) - t(from) <= max
Satisfiable(cs) ==
    \E t \in [Points -> 0..Horizon] :
        \A k \in DOMAIN cs :
            /\ cs[k][1] <= t[k[2]] - t[k[1]]
            /\ t[k[2]] - t[k[1]] <= cs[k][2]

(***************************************************************************)
(* C12  STN.consistent() returns true if and only if the stored            *)
(* constraints are satisfiable: some assignment t of times to the time     *)
(* points has min <= t(v) - t(u) <= max for every stored constraint        *)
(* (u, v) -> (min, max).  In particular (a,b) = (10,10), (b,c) = (5,5),    *)
(* (a,c) = (0,10) is inconsistent.                                         *)
(***************************************************************************)
C12_Consistent ==
    slast.op = "consistent"
        => slast.ret.v = Satisfiable(Constraints(sheap, slast.on))

\* consistent() has returned false on the network of the three constraints
C12_Witness ==
    /\ slast.op = "consistent"
    /\ Constraints(sheap, slast.on)
         = (<<"a", "b">> :> <<10, 10>>) @@ (<<"b", "c">> :> <<5, 5>>)
           @@ (<<"a", "c">> :> <<0, 10>>)
    /\ ~slast.ret.v


(***************************************************************************)
(* C13  STN closure on a contradictory constraint: after a constraint has  *)
(* been added between a pair of time points, adding for the same pair a    *)
(* second constraint whose interval is disjoint from the first, such as    *)
(* (0, 3) after (5, 10), makes consistent() return false.                  *)
(***************************************************************************)
\* the last call added, for a pair that had a constraint, a constraint
\* whose interval is disjoint from it
Contradicted ==
    /\ slast.op = "add_constraint"
    /\ slast.raised = None
    /\ <<slast.args[1], slast.args[2]>> \in DOMAIN slast.before[slast.on].constraints
    /\ \/ slast.args[3][2]
            < slast.before[slast.on].constraints[<<slast.args[1], slast.args[2]>>][1]
       \/ slast.args[3][1]
            > slast.before[slast.on].constraints[<<slast.args[1], slast.args[2]>>][2]

C13_Contradiction == Contradicted => ~consistent(sheap, srefs[slast.on]).ret

\* C13, for what the code does: the second constraint replaces the first,
\* and the verdict is that of the network with the second alone
C13_Replaced ==
    Contradicted
        => /\ Constraints(sheap, slast.on)
                = DictSet(slast.before[slast.on].constraints,
                          <<slast.args[1], slast.args[2]>>, slast.args[3])
           /\ consistent(sheap, srefs[slast.on]).ret
                = Satisfiable(Constraints(sheap, slast.on))

\* (0, 3) has been added between a and b after (5, 10), and nothing else
C13_Witness ==
    /\ Contradicted
    /\ slast.args = <<"a", "b", <<0, 3>>>>
    /\ slast.before[slast.on].constraints = (<<"a", "b">> :> <<5, 10>>)
    /\ consistent(sheap, srefs[slast.on]).ret


(***************************************************************************)
(* C14  After any sequence of add_time_point, add_constraint, consistent,  *)
(* get_distance, check_interval_conflicts and copy calls, consistent() and *)
(* get_distance() return what a freshly built network with the same time   *)
(* points and constraints would return: a cached verdict or distance       *)
(* matrix is never stale.                                                  *)
(***************************************************************************)
\* the heap in which the STN at o has neither a cached verdict nor a cached
\* matrix, as a network just built from its time points and constraints
Fresh(h, o) == [h EXCEPT ![o].cons = None, ![o].dm = None]

C14_NoStaleCache ==
    \A i \in 1..Len(srefs) :
        /\ consistent(sheap, srefs[i]).ret = consistent(Fresh(sheap, srefs[i]), srefs[i]).ret
        /\ \A q \in DistanceQueries :
            get_distance(sheap, srefs[i], q[1], q[2]).ret
                = get_distance(Fresh(sheap, srefs[i]), srefs[i], q[1], q[2]).ret
        /\ (slast.on = i /\ slast.op = "consistent")
                => slast.ret.v = consistent(Fresh(sheap, srefs[i]), srefs[i]).ret
        /\ (slast.on = i /\ slast.op = "get_distance")
                => slast.ret
                     = get_distance(Fresh(sheap, srefs[i]), srefs[i],
                                    slast.args[1], slast.args[2]).ret

\* a time point has been added to a network whose verdict and matrix were
\* cached, and the distance asked is now that of the larger network
C14_Witness ==
    /\ slast.op = "get_distance"
    /\ slast.before[1].cons = None
    /\ sheap[srefs[1]].dm # None
    /\ sadds = MaxAdds
    /\ slast.ret = Num(15)


(***************************************************************************)
(* C15  STN purity of copy: after c = stn.copy(), add_time_point and       *)
(* add_constraint calls on c leave the original's time points, constraints *)
(* and consistency verdict unchanged, and such calls on the original leave *)
(* c unchanged.                                                            *)
(***************************************************************************)
\* a network that holds the value v
FromValue(v) ==
    <<SetObj(v.time_points), DictObj(v.constraints),
      [STNObj(1, 2) EXCEPT !.cons = v.cons]>>

\* the STN with index j is as it was before the last call
Untouched(j) ==
    /\ STNValue(sheap, srefs[j]) = slast.before[j]
    /\ consistent(sheap, srefs[j]).ret = consistent(FromValue(slast.before[j]), 3).ret

C15_CopyIndependent ==
    (Len(srefs) = 2 /\ slast.op \in {"add_time_point", "add_constraint"})
        => \A j \in 1..2 : j # slast.on => Untouched(j)

\* a constraint has been added to the copy of a network that has one
C15_Witness ==
    /\ Len(srefs) = 2
    /\ slast.op = "add_constraint"
    /\ slast.on = 2
    /\ slast.raised = None
    /\ Constraints(sheap, 1) # <<>>
    /\ Constraints(sheap, 2) # Constraints(sheap, 1)


(***************************************************************************)
(* C16  check_interval_conflicts(u, v, min, max) never mutates the         *)
(* receiver: its time points, constraints, cached verdict and the result   *)
(* of a following consistent() are the same as before the call, also when  *)
(* u or v is not yet a time point of the network and when min > max makes  *)
(* the call fail.                                                          *)
(***************************************************************************)
C16_ReceiverUntouched ==
    slast.op = "check_interval_conflicts" => Untouched(slast.on)

\* the call has failed on min > max, with an end point the receiver lacks
C16_Witness ==
    /\ slast.op = "check_interval_conflicts"
    /\ slast.raised # None
    /\ slast.args[2] \notin TimePoints(sheap, slast.on)
    /\ Constraints(sheap, slast.on) # <<>>
    /\ sheap[srefs[slast.on]].cons # None

(***************************************************************************)
(* C17  check_interval_conflicts(u, v, min, max) reports a conflict        *)
(* exactly when stn.copy() followed by add_constraint(u, v, (min, max)) on *)
(* the copy gives consistent() = false, for every network and every u, v,  *)
(* min <= max.                                                             *)
(***************************************************************************)
\* consistent() of the copy of the STN at o after add_constraint(u, v, c)
ConsistentWith(h, o, u, v, c) ==
    consistent(add_constraint(STN_copy(h, o).heap, STN_copy(h, o).ref, u, v, c).heap,
               STN_copy(h, o).ref).ret

C17_ConflictIffCopy ==
    (slast.op = "check_interval_conflicts" /\ slast.args[3][1] <= slast.args[3][2])
        => /\ slast.raised = None
           /\ slast.ret.v = ~ConsistentWith(FromValue(slast.before[slast.on]), 3,
                                             slast.args[1], slast.args[2], slast.args[3])

\* a conflict has been reported for an interval with min <= max
C17_Witness ==
    /\ slast.op = "check_interval_conflicts"
    /\ slast.raised = None
    /\ slast.ret.v
    /\ consistent(sheap, srefs[slast.on]).ret

(***************************************************************************)
(* C18  add_constraint(u, v, (min, max)) with min > max fails with an      *)
(* error and stores no constraint for (u, v); with min <= max it succeeds  *)
(* and get_intervals() then contains (u, v, min, max).                     *)
(***************************************************************************)
C18_AddConstraint ==
    slast.op = "add_constraint"
        => IF slast.args[3][1] > slast.args[3][2]
           THEN /\ slast.raised = [exc |-> "ValueError"]
                /\ Constraints(sheap, slast.on) = slast.before[slast.on].constraints
           ELSE /\ slast.raised = None
                /\ \E i \in 1..Len(get_intervals(sheap, srefs[slast.on])) :
                      get_intervals(sheap, srefs[slast.on])[i]
                        = <<slast.args[1], slast.args[2], slast.args[3][1], slast.args[3][2]>>

\* add_constraint has failed on min > max for a pair without a constraint
C18_Witness ==
    /\ slast.op = "add_constraint"
    /\ slast.raised # None
    /\ <<slast.args[1], slast.args[2]>> \notin DOMAIN Constraints(sheap, slast.on)
    /\ Constraints(sheap, slast.on) # <<>>


(***************************************************************************)
(* Calls of the duration functions.  The argument is a string, every       *)
(* string of up to MaxLen characters of DurationAlphabet and a few longer  *)
(* ones, which is parsed; or a whole number of seconds up to MaxSeconds,   *)
(* which is formatted and the result parsed.                               *)
(***************************************************************************)
MaxLen == 4
MaxSeconds == 7325

DurationAlphabet == {"P", "T", "1", "5", "H", "M", "S", ".", "x"}

DurationExamples ==
    { PT30M, PT2H,
      Chr(<<"P", "T", "1", "H", "3", "0", "M", "4", "5", "S">>),
      Chr(<<"P", "T", "0", ".", "5", "S">>),
      Chr(<<"P", "T", "1", ".", "5", "S", "x">>),
      Chr(<<"P", "T", "x", "y", "z">>),
      Chr(<<"P", "1", "D", "T", "5", "M">>) }

DurationStrings ==
    {Chr(s) : s \in UNION {[1..n -> DurationAlphabet] : n \in 0..MaxLen}}
        \cup DurationExamples

DurationInit ==
    /\ dpc = "arg"
    /\ darg \in DurationStrings \cup {Num(n) : n \in 0..MaxSeconds}
    /\ dret = None
    /\ PlannerOff
    /\ StnOff
    /\ ApiOff

\* parse_iso8601_duration(duration_str)
ParseDuration ==
    /\ dpc = "arg"
    /\ darg.kind = "str"
    /\ dret' = parse_iso8601_duration(darg)
    /\ dpc' = "parsed"
    /\ UNCHANGED <<darg, planvars, stnvars, apivars>>

\* format_iso8601_duration(seconds)
FormatDuration ==
    /\ dpc = "arg"
    /\ darg.kind = "num"
    /\ dret' = format_iso8601_duration(darg.v * MsPerSecond)
    /\ dpc' = "formatted"
    /\ UNCHANGED <<darg, planvars, stnvars, apivars>>

\* parse_iso8601_duration of the string just formatted
ParseFormatted ==
    /\ dpc = "formatted"
    /\ dret' = parse_iso8601_duration(dret)
    /\ dpc' = "roundtrip"
    /\ UNCHANGED <<darg, planvars, stnvars, apivars>>

DurationNext == ParseDuration \/ FormatDuration \/ ParseFormatted

DurationSpec == DurationInit /\ [][DurationNext]_vars

(***************************************************************************)
(* C19  The duration parser rejects every string that does not begin with  *)
(* 'PT' and every string that contains no recognised H/M/S component after *)
(* 'PT' (for example 'PT' alone or 'PT' followed by unrecognised text); it *)
(* returns a number of seconds only for strings with at least one          *)
(* component.                                                              *)
(***************************************************************************)
BeginsWithPT(s) == Len(s) >= 2 /\ s[1] = "P" /\ s[2] = "T"

\* s[i..j] is a number n or n.n
IsNumber(s, i, j) ==
    /\ i <= j
    /\ IsDigit(s[i]) /\ IsDigit(s[j])
    /\ \A k \in i..j : IsDigit(s[k]) \/ s[k] = "."
    /\ Cardinality({k \in i..j : s[k] = "."}) <= 1

\* what follows 'PT' starts with a component: a number and H, M or S
HasComponent(s) ==
    \E j \in 4..Len(s) : s[j] \in {"H", "M", "S"} /\ IsNumber(s, 3, j - 1)

C19_Rejects ==
    dpc = "parsed"
        => (dret # None <=> (BeginsWithPT(darg.s) /\ HasComponent(darg.s)))

\* C19, for what the code does: the strings rejected are those that do not
\* begin with 'PT'; a string without a component after 'PT' parses to 0
C19_RejectsNoPrefix ==
    dpc = "parsed"
        => /\ dret # None <=> BeginsWithPT(darg.s)
           /\ (BeginsWithPT(darg.s) /\ ~HasComponent(darg.s)) => dret = Num(0)

\* 'PT' alone has been parsed
C19_Witness ==
    /\ dpc = "parsed"
    /\ darg = Chr(<<"P", "T">>)
    /\ dret = Num(0)

MaxCalls == 4

\* a string datetime.fromisoformat rejects
BadInstant == [valid |-> FALSE, wall |-> 0, zone |-> "naive", off |-> 0]

DurationArgs ==
    {PT30M, PT2H, Chr(<<"P", "T">>), Chr(<<"3", "0", "M">>), Chr(<<>>),
     Num(1800 * MsPerSecond), Num(0 - 5 * MsPerSecond)}

InstantArgs ==
    {IsoZ(9 * 3600 * MsPerSecond), IsoZ(10 * 3600 * MsPerSecond),
     IsoZ(10 * 3600 * MsPerSecond + 1800 * MsPerSecond),
     IsoNaive(10 * 3600 * MsPerSecond), BadInstant}

\* a faulty variant of calculate_duration: no test of the sign of delta
calculate_duration_unsigned(tm) ==
    IF tm.start_time = None \/ tm.end_time = None
    THEN [tm |-> tm, ok |-> FALSE, raised |-> None]
    ELSE Bind(parse_iso8601_datetime(tm.start_time), LAMBDA start_dt :
         Bind(parse_iso8601_datetime(tm.end_time), LAMBDA end_dt :
            IF start_dt = None \/ end_dt = None
            THEN [tm |-> tm, ok |-> FALSE, raised |-> None]
            ELSE IF start_dt.aware # end_dt.aware
            THEN [tm |-> tm, ok |-> FALSE, raised |-> [exc |-> "TypeError"]]
            ELSE [tm |-> [tm EXCEPT !.duration = format_iso8601_duration(
                            (end_dt.wall - end_dt.off) - (start_dt.wall - start_dt.off))],
                  ok |-> TRUE, raised |-> None]))

\* TemporalMetadata.calculate_duration: [tm, ok, raised]; ok is the returned
\* bool.  end_dt - start_dt raises TypeError when one datetime carries a
\* zone and the other does not.
calculate_duration(tm) ==
    IF tm.start_time = None \/ tm.end_time = None
    THEN [tm |-> tm, ok |-> FALSE, raised |-> None]
    ELSE Bind(parse_iso8601_datetime(tm.start_time), LAMBDA start_dt :
         Bind(parse_iso8601_datetime(tm.end_time), LAMBDA end_dt :
            IF start_dt = None \/ end_dt = None
            THEN [tm |-> tm, ok |-> FALSE, raised |-> None]
            ELSE IF start_dt.aware # end_dt.aware
            THEN [tm |-> tm, ok |-> FALSE, raised |-> [exc |-> "TypeError"]]
            ELSE LET delta == (end_dt.wall - end_dt.off) - (start_dt.wall - start_dt.off)
                 IN  IF delta < 0 THEN [tm |-> tm, ok |-> FALSE, raised |-> None]
                     ELSE [tm |-> [tm EXCEPT !.duration = format_iso8601_duration(delta)],
                           ok |-> TRUE, raised |-> None]))

\* the record of the last call, with the object as it was before the call
MetaCalled(op, args, ret, raised) ==
    [op |-> op, args |-> args, ret |-> ret, raised |-> raised, before |-> meta]

MetaInit ==
    /\ meta = None
    /\ mlast = None
    /\ mcalls = 0
    /\ PlannerOff
    /\ StnOff
    /\ DurOff
    /\ RegOff
    /\ StateOff

\* tm = TemporalMetadata(duration, start_time, end_time), the client's first
\* call; when __init__ raises there is no object and the client tries again
NewMetadata ==
    /\ mcalls < MaxCalls
    /\ meta = None
    /\ \E duration \in DurationArgs \cup {None},
          start_time \in InstantArgs \cup {None},
          end_time \in InstantArgs \cup {None} :
          LET r == NewTemporalMetadata(duration, start_time, end_time)
          IN  /\ meta' = IF r.raised = None THEN r.tm ELSE meta
              /\ mlast' = MetaCalled("__init__", <<duration, start_time, end_time>>,
                                     None, r.raised)
    /\ mcalls' = mcalls + 1
    /\ UNCHANGED <<planvars, stnvars, durvars, regvars, statevars>>

\* tm.set_duration(duration)
SetDuration ==
    /\ mcalls < MaxCalls
    /\ meta # None
    /\ \E duration \in DurationArgs :
          LET r == set_duration(meta, duration)
          IN  /\ meta' = r.tm
              /\ mlast' = MetaCalled("set_duration", <<duration>>, None, r.raised)
    /\ mcalls' = mcalls + 1
    /\ UNCHANGED <<planvars, stnvars, durvars, regvars, statevars>>

\* tm.set_start_time(start_time)
SetStartTime ==
    /\ mcalls < MaxCalls
    /\ meta # None
    /\ \E start_time \in InstantArgs :
          LET r == set_start_time(meta, start_time)
          IN  /\ meta' = r.tm
              /\ mlast' = MetaCalled("set_start_time", <<start_time>>, None, r.raised)
    /\ mcalls' = mcalls + 1
    /\ UNCHANGED <<planvars, stnvars, durvars, regvars, statevars>>

\* tm.set_end_time(end_time)
SetEndTime ==
    /\ mcalls < MaxCalls
    /\ meta # None
    /\ \E end_time \in InstantArgs :
          LET r == set_end_time(meta, end_time)
          IN  /\ meta' = r.tm
              /\ mlast' = MetaCalled("set_end_time", <<end_time>>, None, r.raised)
    /\ mcalls' = mcalls + 1
    /\ UNCHANGED <<planvars, stnvars, durvars, regvars, statevars>>

\* tm.calculate_end_from_duration()
CalculateEndFromDuration ==
    /\ mcalls < MaxCalls
    /\ meta # None
    /\ LET r == calculate_end_from_duration(meta)
       IN  /\ meta' = r.tm
           /\ mlast' = MetaCalled("calculate_end_from_duration", <<>>, Bool(r.ok), None)
    /\ mcalls' = mcalls + 1
    /\ UNCHANGED <<planvars, stnvars, durvars, regvars, statevars>>

\* tm.calculate_duration()
CalculateDuration ==
    /\ mcalls < MaxCalls
    /\ meta # None
    /\ LET r == calculate_duration(meta)
       IN  /\ meta' = r.tm
           /\ mlast' = MetaCalled("calculate_duration", <<>>,
                                  IF r.raised = None THEN Bool(r.ok) ELSE None, r.raised)
    /\ mcalls' = mcalls + 1
    /\ UNCHANGED <<planvars, stnvars, durvars, regvars, statevars>>

MetaNext ==
    \/ NewMetadata
    \/ SetDuration
    \/ SetStartTime
    \/ SetEndTime
    \/ CalculateEndFromDuration
    \/ CalculateDuration

MetaSpec == MetaInit /\ [][MetaNext]_vars

\* the three fields of the object are set
AllSet(tm) ==
    /\ tm # None
    /\ tm.duration # None
    /\ tm.start_time # None
    /\ tm.end_time # None

\* end = start + duration, and the duration is not negative
LawsHold(tm) ==
    /\ UtcMs(tm.end_time) = UtcMs(tm.start_time) + parse_iso8601_duration(tm.duration).v
    /\ parse_iso8601_duration(tm.duration).v >= 0

(***************************************************************************)
(* C21  TemporalMetadata is closed under its derivation laws: after any    *)
(* sequence of constructor, setter and derive calls, whenever start,       *)
(* duration and end are all set, end = start + duration and the duration   *)
(* is >= 0.                                                                *)
(***************************************************************************)
C21_Closed == AllSet(meta) => LawsHold(meta)

\* C21, for what the code does: the laws hold right after a derivation that
\* succeeded; a setter or the constructor stores its argument and derives
\* nothing
C21_ClosedAfterDerive ==
    (/\ mlast # None
     /\ mlast.op \in {"calculate_end_from_duration", "calculate_duration"}
     /\ mlast.ret = Bool(TRUE)
     /\ AllSet(meta))
        => LawsHold(meta)

\* a derivation has succeeded on an object whose three fields were set and
\* did not obey the law
C21_Witness ==
    /\ mlast # None
    /\ mlast.op = "calculate_duration"
    /\ mlast.ret = Bool(TRUE)
    /\ AllSet(mlast.before)
    /\ ~LawsHold(mlast.before)
    /\ AllSet(meta)

\* a duration argument the specification calls invalid: a negative number
\* of seconds, or a string that is not PT followed by a recognised component
InvalidDuration(d) ==
    /\ d # None
    /\ \/ d.kind = "num" /\ d.v < 0
       \/ d.kind = "str" /\ ~(BeginsWithPT(d.s) /\ HasComponent(d.s))

(***************************************************************************)
(* C22  TemporalMetadata construction and set_duration fail with an error  *)
(* for every out-of-range or non-parsable duration (a negative number of   *)
(* seconds, or a string that is not a valid PT duration), and in that case *)
(* the stored duration is left as it was.                                  *)
(***************************************************************************)
C22_InvalidDuration ==
    (/\ mlast # None
     /\ mlast.op \in {"__init__", "set_duration"}
     /\ InvalidDuration(mlast.args[1]))
        => /\ mlast.raised # None
           /\ meta = mlast.before

\* C22, for what the code does: a string that does not begin with 'PT'
\* raises ValueError and the object is left as it was; a negative number is
\* stored as 'PT0S' and a string 'PT' without a component is stored as it is
\* (__init__ can then still raise on its start_time or end_time)
C22_InvalidPrefix ==
    (/\ mlast # None
     /\ mlast.op \in {"__init__", "set_duration"}
     /\ InvalidDuration(mlast.args[1]))
        => LET d == mlast.args[1]
           IN  IF d.kind = "str" /\ ~BeginsWithPT(d.s)
               THEN mlast.raised = [exc |-> "ValueError"] /\ meta = mlast.before
               ELSE /\ mlast.op = "set_duration" => mlast.raised = None
                    /\ mlast.raised = None
                           => meta.duration = IF d.kind = "num" THEN PT0S ELSE d

\* set_duration has raised on an object whose duration was set
C22_Witness ==
    /\ mlast # None
    /\ mlast.op = "set_duration"
    /\ mlast.args[1] = Chr(<<"3", "0", "M">>)
    /\ mlast.raised = [exc |-> "ValueError"]
    /\ mlast.before.duration = PT2H
    /\ meta.duration = PT2H

SetAttr(h, s, name, d) ==
    LET i == CHOOSE i \in 1..Len(h[s].attrs) : h[s].attrs[i].name = name
    IN  [Append(h, DictObj(d)) EXCEPT ![s].attrs[i].ref = Len(h) + 1]

\* State.clear_timeline: self._timeline = [], a new list
clear_timeline(h, s) == [Append(h, ListObj(<<>>)) EXCEPT ![s].timeline = Len(h) + 1]

ClientDicts ==
    << [name |-> "loc", d |-> ("alice" :> "home")],
       [name |-> "status", d |-> ("alice" :> "waiting")] >>

ClientTimes ==
    {IsoZ(9 * 3600 * MsPerSecond), IsoZ(10 * 3600 * MsPerSecond),
     IsoZ(11 * 3600 * MsPerSecond)}

\* the record of the last call, with the value of every State before the call
StateCalled(op, on, args, raised) ==
    [op |-> op, on |-> on, args |-> args, raised |-> raised,
     before |-> [i \in 1..Len(trefs) |-> StateValue(theap, trefs[i])]]

\* s = State('s', initial_time='...T10:00:00Z'); s.loc = {...}; s.status = {...}
StateInit ==
    /\ LET st == NewState(<<>>, ClientDicts, IsoZ(10 * 3600 * MsPerSecond))
       IN  theap = st.heap /\ trefs = <<st.ref>>
    /\ tlast = None
    /\ tcalls = 0
    /\ PlannerOff
    /\ StnOff
    /\ DurOff
    /\ MetaOff
    /\ RegOff

\* c = s.copy()
CopyState ==
    /\ tcalls < MaxCalls
    /\ Len(trefs) = 1
    /\ LET r == Copy(theap, trefs[1])
       IN  /\ theap' = r.heap
           /\ trefs' = <<trefs[1], r.ref>>
    /\ tlast' = StateCalled("copy", 1, <<>>, None)
    /\ tcalls' = tcalls + 1
    /\ UNCHANGED <<planvars, stnvars, durvars, metavars, regvars>>

\* x.name = {'bob': 'park'}
SetAttribute ==
    /\ tcalls < MaxCalls
    /\ \E i \in 1..Len(trefs), name \in {"loc", "status"} :
          /\ theap' = SetAttr(theap, trefs[i], name, ("bob" :> "park"))
          /\ tlast' = StateCalled("setattr", i, <<name>>, None)
    /\ tcalls' = tcalls + 1
    /\ UNCHANGED <<trefs, planvars, stnvars, durvars, metavars, regvars>>

\* x.name['alice'] = 'park'
SetNested ==
    /\ tcalls < MaxCalls
    /\ \E i \in 1..Len(trefs), name \in {"loc", "status"} :
          /\ theap' = SetItem(theap, trefs[i], name, "alice", "park")
          /\ tlast' = StateCalled("setitem", i, <<name>>, None)
    /\ tcalls' = tcalls + 1
    /\ UNCHANGED <<trefs, planvars, stnvars, durvars, metavars, regvars>>

\* x.set_current_time(time)
SetCurrentTime ==
    /\ tcalls < MaxCalls
    /\ \E i \in 1..Len(trefs), time \in ClientTimes :
          /\ theap' = set_current_time(theap, trefs[i], time)
          /\ tlast' = StateCalled("set_current_time", i, <<time>>, None)
    /\ tcalls' = tcalls + 1
    /\ UNCHANGED <<trefs, planvars, stnvars, durvars, metavars, regvars>>

\* x.add_to_timeline(('a_walk',), start_time, end_time)
AddToTimeline ==
    /\ tcalls < MaxCalls
    /\ \E i \in 1..Len(trefs), start_time \in ClientTimes, end_time \in ClientTimes :
          /\ UtcMs(start_time) < UtcMs(end_time)
          /\ theap' = add_to_timeline(theap, trefs[i], <<"a_walk">>, start_time, end_time)
          /\ tlast' = StateCalled("add_to_timeline", i, <<start_time, end_time>>, None)
    /\ tcalls' = tcalls + 1
    /\ UNCHANGED <<trefs, planvars, stnvars, durvars, metavars, regvars>>

\* x.clear_timeline()
ClearTimeline ==
    /\ tcalls < MaxCalls
    /\ \E i \in 1..Len(trefs) :
          /\ theap' = clear_timeline(theap, trefs[i])
          /\ tlast' = StateCalled("clear_timeline", i, <<>>, None)
    /\ tcalls' = tcalls + 1
    /\ UNCHANGED <<trefs, planvars, stnvars, durvars, metavars, regvars>>

StateNext ==
    \/ CopyState
    \/ SetAttribute
    \/ SetNested
    \/ SetCurrentTime
    \/ AddToTimeline
    \/ ClearTimeline

StateSpec == StateInit /\ [][StateNext]_vars

(***************************************************************************)
(* C24  State.copy() returns a fully independent clone: after              *)
(* c = s.copy(), any attribute write, nested-mapping mutation,             *)
(* set_current_time, add_to_timeline or clear_timeline on c leaves every   *)
(* attribute, the cursor and the timeline of s unchanged, and vice versa.  *)
(***************************************************************************)
C24_CopyIndependent ==
    tlast # None
        => /\ tlast.op = "copy"
                => /\ trefs[2] # trefs[1]
                   /\ StateValue(theap, trefs[2]) = tlast.before[1]
                   /\ StateValue(theap, trefs[1]) = tlast.before[1]
           /\ (tlast.op # "copy" /\ Len(trefs) = 2)
                => \A j \in 1..2 :
                      j # tlast.on => StateValue(theap, trefs[j]) = tlast.before[j]

\* an entry of a mapping of the copy has been changed after the timeline of
\* the original had grown, and the two states now differ in both
C24_Witness ==
    /\ tlast # None
    /\ Len(trefs) = 2
    /\ tlast.op = "setitem"
    /\ tlast.on = 2
    /\ Attr(theap, trefs[2], "loc") = ("alice" :> "park")
    /\ Attr(theap, trefs[1], "loc") = ("alice" :> "home")
    /\ Len(get_timeline(theap, trefs[1])) = 1
    /\ Len(get_timeline(theap, trefs[2])) = 0

(***************************************************************************)
(* C25  The state's time cursor is monotonic non-decreasing: an attempt to *)
(* move the cursor (or append a timeline record) to an instant earlier     *)
(* than the current cursor fails with the TemporalInvariant error and      *)
(* leaves the cursor and timeline unchanged.                               *)
(***************************************************************************)
C25_CursorMonotonic ==
    (/\ tlast # None
     /\ tlast.op \in {"set_current_time", "add_to_timeline"}
     /\ UtcMs(tlast.args[1]) < UtcMs(tlast.before[tlast.on].time))
        => /\ tlast.raised # None
           /\ StateValue(theap, trefs[tlast.on]) = tlast.before[tlast.on]

\* C25, for what the code does: set_current_time stores the instant it is
\* given and add_to_timeline appends the record it is given, whatever the
\* cursor is; neither raises, and add_to_timeline leaves the cursor
C25_CursorUnchecked ==
    (tlast # None /\ tlast.op \in {"set_current_time", "add_to_timeline"})
        => LET b == tlast.before[tlast.on]
               now == StateValue(theap, trefs[tlast.on])
           IN  /\ tlast.raised = None
               /\ now.attrs = b.attrs
               /\ tlast.op = "set_current_time"
                    => now.time = tlast.args[1] /\ now.timeline = b.timeline
               /\ tlast.op = "add_to_timeline"
                    => /\ now.time = b.time
                       /\ now.timeline
                            = Append(b.timeline, <<(<<"a_walk">>), tlast.args[1], tlast.args[2]>>)

\* the cursor has been moved from 10:00 back to 09:00
C25_Witness ==
    /\ tlast # None
    /\ tlast.op = "set_current_time"
    /\ tlast.before[tlast.on].time = IsoZ(10 * 3600 * MsPerSecond)
    /\ get_current_time(theap, trefs[tlast.on]) = IsoZ(9 * 3600 * MsPerSecond)

(***************************************************************************)
(* A client of Actions: it creates a registry and makes declaration calls  *)
(* in any order, with well-formed and ill-formed arguments.                *)
(***************************************************************************)
NotCallable == [callable |-> FALSE, name |-> "nothing"]

ActionLists ==
    { <<>>, <<Fn("a_walk")>>, <<Fn("a_ride")>>, <<Fn("a_walk"), Fn("a_ride")>>,
      <<Fn("a_walk"), NotCallable>> }

\* pairs (act_prob_dict, act_cost_dict)
ActionModels ==
    { <<("a_walk" :> <<0, 1>>), ("a_walk" :> 2)>>,
      <<("a_ride" :> <<0, 1>>), ("a_ride" :> 3)>>,
      <<("a_walk" :> <<0, 1>>), <<>> >>,
      <<("a_fly" :> <<1, 0>>), ("a_fly" :> 2)>>,
      <<("a_walk" :> <<1, 0>>) @@ ("a_ride" :> <<1, 0>>), ("a_walk" :> 2) @@ ("a_ride" :> 2)>> }

TemporalLists ==
    { <<Entry2(Fn("a_walk"), PT5M)>>,
      <<Entry3("a_ride", Fn("a_ride"), Chr(<<"3", "0", "M">>))>>,
      <<Entry2(Fn("a_ride"), Chr(<<"P", "T">>))>>,
      <<Entry2(Fn("a_walk"), Num(0 - 5 * MsPerSecond))>>,
      <<Entry3("a_stroll", Fn("a_walk"), PT10M)>>,
      <<Entry3("a_ride", Fn("a_walk"), PT10M)>>,
      <<Entry2(Fn("a_ride"), None)>>,
      <<Entry2(Fn("a_ride"), PT10M), Entry2(Fn("a_walk"), Chr(<<"x">>))>>,
      <<Entry2(Fn("a_walk"), Chr(<<>>)), Entry2(Fn("a_ride"), PT10M)>>,
      <<Entry2(NotCallable, PT5M)>> }

\* the record of the last call, with the registry as it was before the call;
\* clean: no call has raised so far
RegCalled(op, args, raised) ==
    [op |-> op, args |-> args, raised |-> raised, before |-> areg,
     clean |-> (alast = None \/ alast.clean) /\ raised = None]

\* actions = Actions()
RegInit ==
    /\ areg = NewActions
    /\ alast = None
    /\ acalls = 0
    /\ PlannerOff
    /\ StnOff
    /\ DurOff
    /\ MetaOff
    /\ StateOff

\* actions.declare_actions(action_list)
DeclareActions ==
    /\ acalls < MaxCalls
    /\ \E action_list \in ActionLists :
          LET r == declare_actions(areg, action_list)
          IN  /\ areg' = r.reg
              /\ alast' = RegCalled("declare_actions", <<action_list>>, r.raised)
    /\ acalls' = acalls + 1
    /\ UNCHANGED <<planvars, stnvars, durvars, metavars, statevars>>

\* actions.declare_action_models(act_prob_dict, act_cost_dict)
DeclareActionModels ==
    /\ acalls < MaxCalls
    /\ \E models \in ActionModels :
          LET r == declare_action_models(areg, models[1], models[2])
          IN  /\ areg' = r.reg
              /\ alast' = RegCalled("declare_action_models", models, r.raised)
    /\ acalls' = acalls + 1
    /\ UNCHANGED <<planvars, stnvars, durvars, metavars, statevars>>

\* actions.declare_temporal_actions(temporal_action_list)
DeclareTemporalActions ==
    /\ acalls < MaxCalls
    /\ \E list \in TemporalLists :
          LET r == declare_temporal_actions(areg, list)
          IN  /\ areg' = r.reg
              /\ alast' = RegCalled("declare_temporal_actions", <<list>>, r.raised)
    /\ acalls' = acalls + 1
    /\ UNCHANGED <<planvars, stnvars, durvars, metavars, statevars>>

RegNext == DeclareActions \/ DeclareActionModels \/ DeclareTemporalActions

RegSpec == RegInit /\ [][RegNext]_vars

\* the cost map and the probability map have the key set of the action map
SameKeys(reg) ==
    /\ DOMAIN reg.action_cost = DOMAIN reg.action_dict
    /\ DOMAIN reg.action_prob = DOMAIN reg.action_dict

(***************************************************************************)
(* C26  Action-registry invariant: after any declaration call              *)
(* (declare_actions, declare_action_models, declare_temporal_actions, in   *)
(* any order and with any arguments), the cost map and the probability map *)
(* have exactly the same key set as the action map.                        *)
(***************************************************************************)
C26_SameKeys == SameKeys(areg)

\* C26, for what the code does: the key sets agree as long as no call has
\* raised; declare_action_models updates the maps before it asserts
C26_SameKeysWhileClean == (alast # None /\ alast.clean) => SameKeys(areg)

\* declare_action_models has returned normally and changed a cost
C26_Witness ==
    /\ alast # None
    /\ alast.clean
    /\ alast.op = "declare_action_models"
    /\ alast.before.action_cost # areg.action_cost
    /\ DOMAIN areg.action_dict = {"a_walk", "a_ride"}

\* the names of the functions of an action list
NamesOf(action_list) == {action_list[i].name : i \in 1..Len(action_list)}

(***************************************************************************)
(* C27  declare_actions([a1, ..., ak]) supersedes any previous call to     *)
(* declare_actions: after the call the registered planning actions are     *)
(* exactly a1, ..., ak, so an action declared only by an earlier call is   *)
(* no longer registered.                                                   *)
(***************************************************************************)
C27_Supersedes ==
    (alast # None /\ alast.op = "declare_actions" /\ alast.raised = None)
        => DOMAIN areg.action_dict = NamesOf(alast.args[1])

\* C27, for what the code does: the call adds a1, ..., ak to the actions
\* registered before it and resets their cost and probability; nothing is
\* removed
C27_Accumulates ==
    (alast # None /\ alast.op = "declare_actions" /\ alast.raised = None)
        => LET names == NamesOf(alast.args[1])
               b == alast.before
           IN  /\ DOMAIN areg.action_dict = DOMAIN b.action_dict \cup names
               /\ \A n \in DOMAIN b.action_dict \ names :
                     areg.action_dict[n] = b.action_dict[n]
               /\ \A n \in names :
                     /\ areg.action_dict[n] = Fn(n)
                     /\ areg.action_cost[n] = 1
                     /\ areg.action_prob[n] = <<1, 0>>
               /\ areg.action_temporal_dict = b.action_temporal_dict

\* a_ride alone has been declared after a_walk, and a_walk is still registered
C27_Witness ==
    /\ alast # None
    /\ alast.op = "declare_actions"
    /\ alast.args[1] = <<Fn("a_ride")>>
    /\ DOMAIN alast.before.action_dict = {"a_walk"}
    /\ DOMAIN areg.action_dict = {"a_walk", "a_ride"}

\* a duration string the parser rejects
Unparsable(d) == d # None /\ d.kind = "str" /\ parse_iso8601_duration(d) = None

HealthcareModels ==
    { <<("a_perform_surgery" :> <<0, 1>>), ("a_perform_surgery" :> 5)>>,
      <<("a_clean_room" :> <<0, 1>>) @@ ("a_prepare_room" :> <<1, 1>>),
        ("a_clean_room" :> 0)>> }

\* actions.declare_action_models(act_prob_dict, act_cost_dict) after the
\* first planning call has ended; an AssertionError is caught by the caller
DeclareModels ==
    /\ runs = 1
    /\ pc # "run"
    /\ \E models \in HealthcareModels :
          actions' = declare_action_models(actions, models[1], models[2]).reg
    /\ UNCHANGED <<heap, call, pc, tree, frontier, cur, result, runs, prev, snapshot,
                   localtz, stnvars, durvars, apivars>>

ModelsNext == Next \/ DeclareModels

ModelsSpec == Init /\ [][ModelsNext]_vars

RetractsTo(a) ==
    /\ pc = "run"
    /\ pc' = "run"
    /\ a \in 1..Len(tree)
    /\ a <= Len(tree')
    /\ tree[a].children # <<>>
    /\ tree'[a].children = <<>>
    /\ tree'[a].midx = tree[a].midx + 1

\* the end of the last stamped element of a plan; the time given when none
LastEnd(plan, time) ==
    IF Stamped(plan) = <<>> THEN time
    ELSE Stamped(plan)[Len(Stamped(plan))].temporal.end_time

(***************************************************************************)
(* C30  Retraction restores the pre-state: when the planner retracts to an *)
(* ancestor choice point, the next method alternative is evaluated against *)
(* the state snapshot taken before that node was refined (every effect of  *)
(* the retracted actions on attributes, on the time cursor and on the      *)
(* timeline is undone) and the retracted subtree's actions do not appear   *)
(* in the final plan.                                                      *)
(***************************************************************************)
C30_RetractRestores ==
    [][\A a \in 1..Len(tree) :
          RetractsTo(a)
              => /\ frontier' = a
                 /\ cur' = tree[a].state
                 /\ StateValue(heap', cur') = StateValue(heap, tree[a].state)
                 \* the nodes created below a are gone, the others are as they were
                 /\ Len(tree') = tree[a].children[1] - 1
                 /\ \A n \in 1..Len(tree') : n # a => tree'[n] = tree[n]
                 \* the state is what the actions still in the tree make of the
                 \* caller's state: attributes, cursor and timeline
                 /\ Bind(NewState(<<>>, snapshot.attrs, snapshot.time), LAMBDA st :
                    Bind(Replay(actions, st.heap, st.ref, PlanOf(tree', 1), 1), LAMBDA r :
                       /\ r.ok
                       /\ StateValue(r.heap, st.ref).attrs = StateValue(heap', cur').attrs))
                 /\ get_current_time(heap', cur') = LastEnd(PlanOf(tree', 1), snapshot.time)
                 /\ get_timeline(heap', cur')
                       = [i \in 1..Len(Stamped(PlanOf(tree', 1))) |->
                             << Stamped(PlanOf(tree', 1))[i].action,
                                Stamped(PlanOf(tree', 1))[i].temporal.start_time,
                                Stamped(PlanOf(tree', 1))[i].temporal.end_time >>]]_vars

\* the planner has retracted a_prepare_room: the node of the surgery task is
\* the frontier again, at its second method, on a state whose cursor and
\* timeline are those of the caller
C30_Witness ==
    /\ pc = "run"
    /\ frontier = 2
    /\ tree[2].midx = 2
    /\ tree[2].children = <<>>
    /\ tree[2].task[1] = "schedule_surgery"
    /\ get_timeline(heap, cur) = <<>>
    /\ get_current_time(heap, cur) = snapshot.time
    /\ StateValue(heap, cur).attrs = snapshot.attrs

(***************************************************************************)
(* C31  After a successful plan(), including one found only after          *)
(* retractions, the final state's timeline holds exactly one record        *)
(* (action_tuple, start, end) per temporal primitive of the plan, in plan  *)
(* order and with the same start and end as the plan's stamps; no record   *)
(* of a retracted action remains and no record is duplicated.              *)
(***************************************************************************)
C31_TimelineIsPlan ==
    pc = "done" =>
        Bind(Stamped(result.plan), LAMBDA sp :
        Bind(get_timeline(heap, cur), LAMBDA tl :
            /\ Len(tl) = Len(sp)
            /\ \A i \in 1..Len(sp) :
                  tl[i] = <<sp[i].action, sp[i].temporal.start_time,
                            sp[i].temporal.end_time>>))

\* a plan of three stamped actions has been returned by the second method
\* of the surgery task, after the actions of the first were retracted
C31_Witness ==
    /\ pc = "done"
    /\ call.tasks = <<FirstSurgery>>
    /\ tree[2].midx = 2
    /\ Len(Stamped(result.plan)) = 3
    /\ Len(get_timeline(heap, cur)) = 3

\* the frontier is a travel task, not yet tried, of a person who is already
\* at the destination: tm_do_nothing, the first method, returns []
AlreadyThere ==
    /\ pc = "run"
    /\ frontier # 0
    /\ tree[frontier].task[1] = "travel"
    /\ tree[frontier].midx = 1
    /\ Attr(heap, cur, "loc")[tree[frontier].task[2]] = tree[frontier].task[3]

(***************************************************************************)
(* C32  A method that returns an empty task list counts as a successful    *)
(* decomposition: the compound node gets no children, contributes no       *)
(* action to the plan, and the engine advances to the next task instead of *)
(* trying the next method or retracting (only the failure sentinel makes   *)
(* the engine try the next method).                                        *)
(***************************************************************************)
C32_EmptyDecomposition ==
    [][AlreadyThere
          => LET n == frontier
                 k == CHOOSE k \in 1..Len(tree[1].children) : tree[1].children[k] = n
             IN  /\ pc' = "run"
                 /\ Len(tree') = Len(tree)
                 /\ tree'[n].children = <<>>
                 /\ tree'[n].midx = 1
                 /\ tree'[n].state = cur
                 /\ PlanOf(tree', n) = <<>>
                 /\ PlanOf(tree', 1) = PlanOf(tree, 1)
                 /\ heap' = heap
                 /\ cur' = cur
                 /\ frontier' = IF k < Len(tree[1].children)
                                THEN tree[1].children[k + 1] ELSE 0]_vars

\* alice was asked to travel to where she is and then bob to the park: the
\* first task was decomposed into nothing and the second is the frontier
C32_Witness ==
    /\ pc = "run"
    /\ call.tasks = << <<"travel", "alice", "home_a">>, <<"travel", "bob", "park">> >>
    /\ frontier = 3
    /\ tree[2].state # 0
    /\ tree[2].midx = 1
    /\ tree[2].children = <<>>
    /\ tree[3].state = 0

(***************************************************************************)
(* The planner under the scheduling of plan(): the refinement loop runs    *)
(* without interruption, so an iteration of the loop that can be taken is  *)
(* taken.  An iteration on a known task can be taken exactly when the call *)
(* is running and the frontier's task names an action or a compound task;  *)
(* its weak fairness is written with that condition in the place of        *)
(* ENABLED <<Refine>>_vars.                                                *)
(***************************************************************************)
Refine == RefineAction \/ RefineTask

RefineEnabled ==
    /\ pc = "run"
    /\ frontier # 0
    /\ IsAction(actions, tree[frontier].task) \/ IsCompound(call.methods, tree[frontier].task)

RefineFair == []<>(~RefineEnabled) \/ []<><<Refine>>_vars

\* the calls of the healthcare problem file as it stands: initial_time with
\* the Z suffix, on a host in UTC
LiveInit ==
    /\ Init
    /\ localtz = 0
    /\ heap = NewState(<<>>, HealthcareInitDicts, HealthcareInitTime).heap

LiveSpec ==
    /\ LiveInit
    /\ [][Next]_vars
    /\ RefineFair
    /\ WF_vars(RaiseUnknownTask)
    /\ WF_vars(ReturnPlan)

(***************************************************************************)
(* C33  plan() terminates, with a plan or with a failure, on every input   *)
(* whose method decompositions have bounded depth: each retraction         *)
(* strictly advances the method index of some choice point, so no          *)
(* combination of method alternatives is explored twice.                   *)
(***************************************************************************)
C33_Terminates ==
    /\ [][\A a \in 1..Len(tree) :
            (/\ pc = "run" /\ pc' = "run"
             /\ a <= Len(tree')
             /\ tree[a].children # <<>>
             /\ tree'[a].children = <<>>)
                => tree'[a].midx > tree[a].midx]_vars
    /\ (pc = "run") ~> (pc \in {"done", "failed", "error"})

\* a call has ended in failure after the first method of the surgery task
\* was retracted and the second was tried
C33_Witness ==
    /\ pc = "failed"
    /\ call.tasks = <<FirstSurgery>>
    /\ tree[2].midx = 2
    /\ result = Outcome("PlanNotFound", None)

(***************************************************************************)
(* Reference notions for the distances of the STN: the graph of the stored *)
(* constraints and its shortest simple paths.                              *)
(***************************************************************************)
\* the weight of the edge x -> y: max of a constraint on (x, y), -min of a
\* constraint on (y, x), the smaller when both are stored; Inf without one
EdgeWeight(cs, x, y) ==
    Bind(IF <<x, y>> \in DOMAIN cs THEN cs[<<x, y>>][2] ELSE Inf, LAMBDA forward :
    Bind(IF <<y, x>> \in DOMAIN cs THEN -cs[<<y, x>>][1] ELSE Inf, LAMBDA backward :
        IF forward < backward THEN forward ELSE backward))

Least(S) == IF S = {} THEN Inf ELSE CHOOSE m \in S : \A n \in S : m <= n

\* the least weight of a path from u to v that visits no point twice and
\* stays within pts; Inf when there is none
RECURSIVE ShortestPath(_, _, _, _)
ShortestPath(cs, pts, u, v) ==
    IF u = v THEN 0
    ELSE Least({EdgeWeight(cs, u, w) + ShortestPath(cs, pts \ {u}, w, v) :
                  w \in {w \in pts \ {u} :
                            /\ EdgeWeight(cs, u, w) # Inf
                            /\ ShortestPath(cs, pts \ {u}, w, v) # Inf}})

(***************************************************************************)
(* C34  get_distance(u, v) returns the weight of the shortest path from u  *)
(* to v in the graph where each stored constraint (x, y) -> (min, max)     *)
(* contributes an edge x -> y of weight max and an edge y -> x of weight   *)
(* -min; it returns None when u or v is not a time point or when no path   *)
(* exists, and 0 for u = v in a consistent network.  The shortest path is  *)
(* defined in the networks without a negative cycle, the consistent ones;  *)
(* the None cases are stated for every network.                            *)
(***************************************************************************)
C34_ShortestPath ==
    slast.op = "get_distance" =>
        Bind(ShortestPath(Constraints(sheap, slast.on), TimePoints(sheap, slast.on),
                          slast.args[1], slast.args[2]), LAMBDA sp :
            IF \/ slast.args[1] \notin TimePoints(sheap, slast.on)
               \/ slast.args[2] \notin TimePoints(sheap, slast.on)
            THEN slast.ret = None
            ELSE /\ slast.ret = None <=> sp = Inf
                 /\ Satisfiable(Constraints(sheap, slast.on))
                      => /\ slast.ret = IF sp = Inf THEN None ELSE Num(sp)
                         /\ slast.args[1] = slast.args[2] => slast.ret = Num(0))

\* the distance from c to a has been returned in a network where the only
\* path from c to a runs against the constraints on (b, c) and on (a, b)
C34_Witness ==
    /\ slast.op = "get_distance"
    /\ slast.args = <<"c", "a">>
    /\ Constraints(sheap, slast.on)
         = (<<"a", "b">> :> <<10, 10>>) @@ (<<"b", "c">> :> <<5, 5>>)
    /\ slast.ret = Num(-15)

(***************************************************************************)
(* C35  declare_temporal_actions registers an entry's action only if that  *)
(* name is not already registered: for both entry forms, (name, fn,        *)
(* duration) and (fn, duration), an already registered function and its    *)
(* declared cost and probabilities are kept; and in every case the entry's *)
(* duration is stored, so has_temporal_info(name) is true afterwards.      *)
(***************************************************************************)
TemporalDeclared ==
    alast # None /\ alast.op = "declare_temporal_actions" /\ alast.raised = None

C35_KeepsRegistered ==
    TemporalDeclared
        => \A i \in 1..Len(alast.args[1]) :
              LET n == alast.args[1][i].name
                  b == alast.before
              IN  /\ has_temporal_info(areg, n)
                  /\ n \in DOMAIN b.action_dict
                       => /\ areg.action_dict[n] = b.action_dict[n]
                          /\ n \in DOMAIN b.action_cost
                               => areg.action_cost[n] = b.action_cost[n]
                          /\ n \in DOMAIN b.action_prob
                               => areg.action_prob[n] = b.action_prob[n]

\* C35, for what the code does: an entry (fn, duration) keeps what is
\* registered under the name; an entry (name, fn, duration) registers fn
\* under the name and resets cost and probabilities, registered or not
C35_ThreeFormOverrides ==
    TemporalDeclared
        => \A i \in 1..Len(alast.args[1]) :
              LET item == alast.args[1][i]
                  n == item.name
                  b == alast.before
              IN  /\ has_temporal_info(areg, n)
                  /\ IF item.len = 2 /\ n \in DOMAIN b.action_dict
                     THEN /\ areg.action_dict[n] = b.action_dict[n]
                          /\ n \in DOMAIN b.action_cost
                               => areg.action_cost[n] = b.action_cost[n]
                          /\ n \in DOMAIN b.action_prob
                               => areg.action_prob[n] = b.action_prob[n]
                     ELSE /\ areg.action_dict[n] = item.fn
                          /\ areg.action_cost[n] = 1
                          /\ areg.action_prob[n] = <<1, 0>>

\* a_ride was registered with the cost 3; the entry ('a_ride', a_walk,
\* 'PT10M') has replaced its function and reset its cost
C35_Witness ==
    /\ TemporalDeclared
    /\ alast.args[1] = <<Entry3("a_ride", Fn("a_walk"), PT10M)>>
    /\ "a_ride" \in DOMAIN alast.before.action_dict
    /\ alast.before.action_dict["a_ride"] = Fn("a_ride")
    /\ alast.before.action_cost["a_ride"] = 3
    /\ areg.action_dict["a_ride"] = Fn("a_walk")
    /\ areg.action_cost["a_ride"] = 1

(***************************************************************************)
(* C36  A rejected add_constraint leaves the network unchanged: when       *)
(* add_constraint(u, v, (min, max)) fails because min > max, the set of    *)
(* time points, the stored constraints and the consistency verdict are the *)
(* same as before the call.                                                *)
(***************************************************************************)
Rejected == slast.op = "add_constraint" /\ slast.raised # None

C36_RejectedUnchanged ==
    Rejected
        => /\ TimePoints(sheap, slast.on) = slast.before[slast.on].time_points
           /\ Constraints(sheap, slast.on) = slast.before[slast.on].constraints
           /\ consistent(sheap, srefs[slast.on]).ret
                = consistent(FromValue(slast.before[slast.on]), 3).ret

\* C36, for what the code does: u and v are made time points before the
\* bounds are compared, and the cached verdict is dropped with that; the
\* constraints and the verdict consistent() returns are as before
C36_RejectedAddsPoints ==
    Rejected
        => /\ slast.args[3][1] > slast.args[3][2]
           /\ TimePoints(sheap, slast.on)
                = slast.before[slast.on].time_points \cup {slast.args[1], slast.args[2]}
           /\ Constraints(sheap, slast.on) = slast.before[slast.on].constraints
           /\ sheap[srefs[slast.on]].cons = None
           /\ consistent(sheap, srefs[slast.on]).ret
                = consistent(FromValue(slast.before[slast.on]), 3).ret

\* add_constraint('a', 'b', (10, 5)) has been rejected on the empty
\* network, which now has the time points a and b
C36_Witness ==
    /\ Rejected
    /\ slast.args = <<"a", "b", <<10, 5>>>>
    /\ slast.before[slast.on].time_points = {}
    /\ TimePoints(sheap, slast.on) = {"a", "b"}

(***************************************************************************)
(* C37  check_interval_conflicts(u, v, min, max) returns true whenever no  *)
(* assignment of times satisfies all constraints already in the network    *)
(* together with min <= t(v) - t(u) <= max, including when the network     *)
(* already holds a constraint on the same ordered pair (u, v).             *)
(***************************************************************************)
\* some assignment meets every constraint of cs and lo <= t(v) - t(u) <= hi
SatisfiableWith(cs, u, v, lo, hi) ==
    \E t \in [Points -> 0..Horizon] :
        /\ \A k \in DOMAIN cs :
              /\ cs[k][1] <= t[k[2]] - t[k[1]]
              /\ t[k[2]] - t[k[1]] <= cs[k][2]
        /\ lo <= t[v] - t[u]
        /\ t[v] - t[u] <= hi

ConflictChecked == slast.op = "check_interval_conflicts" /\ slast.raised = None

C37_DetectsConflict ==
    (/\ ConflictChecked
     /\ ~SatisfiableWith(slast.before[slast.on].constraints, slast.args[1], slast.args[2],
                         slast.args[3][1], slast.args[3][2]))
        => slast.ret.v

\* C37, for what the code does: the constraint is stored in the copy under
\* the key (u, v), so a constraint the network holds on (u, v) is replaced
\* by it, not joined with it; without one on (u, v) the answer is that of
\* the claim
C37_ReplacesSamePair ==
    ConflictChecked
        => /\ slast.ret.v
                = ~Satisfiable(DictSet(slast.before[slast.on].constraints,
                                       <<slast.args[1], slast.args[2]>>, slast.args[3]))
           /\ <<slast.args[1], slast.args[2]>> \notin DOMAIN slast.before[slast.on].constraints
                => slast.ret.v
                     = ~SatisfiableWith(slast.before[slast.on].constraints,
                                        slast.args[1], slast.args[2],
                                        slast.args[3][1], slast.args[3][2])

\* the network holds (a, b) -> (5, 10) alone, and no conflict has been
\* reported for (a, b) with (0, 3)
C37_Witness ==
    /\ ConflictChecked
    /\ slast.args = <<"a", "b", <<0, 3>>>>
    /\ slast.before[slast.on].constraints = (<<"a", "b">> :> <<5, 10>>)
    /\ ~slast.ret.v

(***************************************************************************)
(* C38  A failing declare_temporal_actions call is atomic: when the call   *)
(* raises (bad entry format, non-callable function or invalid duration on  *)
(* any entry of the list), the action, cost, probability and temporal maps *)
(* are the same as before the call, so no action is left registered        *)
(* without the duration it was declared with.                              *)
(***************************************************************************)
TemporalFailed ==
    alast # None /\ alast.op = "declare_temporal_actions" /\ alast.raised # None

C38_Atomic == TemporalFailed => areg = alast.before

\* C38, for what the code does: the entries before the failing one stay
\* declared, and the failing entry's action is registered as well when it
\* is its duration that was rejected
C38_PrefixDeclared ==
    TemporalFailed
        => \E k \in 1..Len(alast.args[1]) :
              Bind(declare_temporal_actions(alast.before, SubSeq(alast.args[1], 1, k - 1)),
                   LAMBDA prefix :
                /\ prefix.raised = None
                /\ Bind(RegisterItem(prefix.reg, alast.args[1][k]), LAMBDA r :
                      IF r.raised # None
                      THEN areg = prefix.reg
                      ELSE /\ NewTemporalMetadata(alast.args[1][k].duration,
                                                  None, None).raised # None
                           /\ areg = r.reg))

\* the second entry, (a_walk, 'x'), has been rejected for its duration:
\* a_ride, the first entry, is declared with its duration, and a_walk,
\* unknown before the call, is registered without temporal information
C38_Witness ==
    /\ TemporalFailed
    /\ alast.args[1] = <<Entry2(Fn("a_ride"), PT10M), Entry2(Fn("a_walk"), Chr(<<"x">>))>>
    /\ alast.before = NewActions
    /\ DOMAIN areg.action_dict = {"a_ride", "a_walk"}
    /\ has_temporal_info(areg, "a_ride")
    /\ ~has_temporal_info(areg, "a_walk")

(***************************************************************************)
(* A client of two States: s and t are built apart, and the client calls   *)
(* s.update(t) or t.update(s) and the mutators on either, in any order.    *)
(***************************************************************************)
\* the loop of dict.update over the attributes of the other State, from
\* its i-th on: a name self has is rebound, a new name is added at the end
RECURSIVE UpdateAttrs(_, _, _)
UpdateAttrs(attrs, other, i) ==
    IF i > Len(other) THEN attrs
    ELSE UpdateAttrs(
            IF \E k \in 1..Len(attrs) : attrs[k].name = other[i].name
            THEN [k \in 1..Len(attrs) |->
                     IF attrs[k].name = other[i].name THEN other[i] ELSE attrs[k]]
            ELSE Append(attrs, other[i]),
            other, i + 1)

\* State.update(state): self.__dict__.update(state.__dict__) binds every
\* attribute of state, _current_time and _timeline among them, in self to
\* the object it is bound to in state
update(h, s, state) ==
    [h EXCEPT ![s] = StateObj(UpdateAttrs(h[s].attrs, h[state].attrs, 1),
                              h[state].time, h[state].timeline)]

OtherDicts ==
    << [name |-> "loc", d |-> ("alice" :> "station")],
       [name |-> "status", d |-> ("alice" :> "done")] >>

\* s = State('s', initial_time='...T10:00:00Z'); s.loc = ...; s.status = ...
\* t = State('t', initial_time='...T11:00:00Z'); t.loc = ...; t.status = ...
StateUpdateInit ==
    /\ LET s == NewState(<<>>, ClientDicts, IsoZ(10 * 3600 * MsPerSecond))
           t == NewState(s.heap, OtherDicts, IsoZ(11 * 3600 * MsPerSecond))
       IN  theap = t.heap /\ trefs = <<s.ref, t.ref>>
    /\ tlast = None
    /\ tcalls = 0
    /\ PlannerOff
    /\ StnOff
    /\ DurOff
    /\ MetaOff
    /\ RegOff

\* x.update(y)
UpdateState ==
    /\ tcalls < MaxCalls
    /\ \E i \in 1..Len(trefs), j \in 1..Len(trefs) :
          /\ i # j
          /\ theap' = update(theap, trefs[i], trefs[j])
          /\ tlast' = StateCalled("update", i, <<j>>, None)
    /\ tcalls' = tcalls + 1
    /\ UNCHANGED <<trefs, planvars, stnvars, durvars, metavars, regvars>>

StateUpdateNext ==
    \/ UpdateState
    \/ SetAttribute
    \/ SetNested
    \/ SetCurrentTime
    \/ AddToTimeline
    \/ ClearTimeline

StateUpdateSpec == StateUpdateInit /\ [][StateUpdateNext]_vars

(***************************************************************************)
(* C39  After s.update(t), the two states stay independent: a later        *)
(* add_to_timeline, clear_timeline or nested attribute mutation on one of  *)
(* them does not change the timeline or the attributes observed through    *)
(* the other.  The two states are independent as built, so this is: in a   *)
(* run with update calls, each such call on one state leaves the other as  *)
(* it was.                                                                 *)
(***************************************************************************)
C39_UpdateIndependent ==
    (tlast # None /\ tlast.op \in {"add_to_timeline", "clear_timeline", "setitem"})
        => \A j \in 1..Len(trefs) :
              j # tlast.on
                 => /\ StateValue(theap, trefs[j]).attrs = tlast.before[j].attrs
                    /\ StateValue(theap, trefs[j]).timeline = tlast.before[j].timeline

\* C39, for what the code does: update binds the receiver's attributes,
\* cursor and timeline to the very objects of the argument, which is left
\* as it was; calls that rebind (clear_timeline, attribute assignment,
\* set_current_time) leave the other state as it was, calls that mutate
\* those objects do so only while the binding is shared
C39_UpdateShares ==
    tlast # None
        => /\ tlast.op = "update"
                => /\ theap[trefs[tlast.on]].timeline = theap[trefs[tlast.args[1]]].timeline
                   /\ \A name \in {"loc", "status"} :
                         AttrRef(theap, trefs[tlast.on], name)
                            = AttrRef(theap, trefs[tlast.args[1]], name)
                   /\ StateValue(theap, trefs[tlast.on]) = tlast.before[tlast.args[1]]
                   /\ StateValue(theap, trefs[tlast.args[1]]) = tlast.before[tlast.args[1]]
           /\ tlast.op \in {"clear_timeline", "setattr", "set_current_time"}
                => \A j \in 1..Len(trefs) :
                      j # tlast.on => StateValue(theap, trefs[j]) = tlast.before[j]
           /\ tlast.op = "add_to_timeline"
                => \A j \in 1..Len(trefs) :
                      (/\ j # tlast.on
                       /\ theap[trefs[j]].timeline # theap[trefs[tlast.on]].timeline)
                          => StateValue(theap, trefs[j]) = tlast.before[j]
           /\ tlast.op = "setitem"
                => \A j \in 1..Len(trefs) :
                      (/\ j # tlast.on
                       /\ AttrRef(theap, trefs[j], tlast.args[1])
                            # AttrRef(theap, trefs[tlast.on], tlast.args[1]))
                          => StateValue(theap, trefs[j]) = tlast.before[j]

\* a record has been added to the timeline of t, and the timeline read
\* through s has grown with it
C39_Witness ==
    /\ tlast # None
    /\ tlast.op = "add_to_timeline"
    /\ tlast.on = 2
    /\ Len(tlast.before[1].timeline) = 0
    /\ Len(get_timeline(theap, trefs[1])) = 1
    /\ Attr(theap, trefs[1], "loc") = ("alice" :> "station")

====
